---- MODULE Spec2Model ----
(***************************************************************************)
(* Model of the lidar floor-plan system: wall segmentation and floor-plan  *)
(* construction (floor_plan_extractor.py) and polygon alignment and        *)
(* comparison (dxf_comparison.py).                                         *)
(*                                                                         *)
(* Numbers are fixed point.  Lengths and coordinates are in hundredths of  *)
(* a drawing unit (1.00 unit = 100), angles in 1/10000 radian              *)
(* (0.1 rad = 1000), sines and cosines in 1/10000.                         *)
(***************************************************************************)
EXTENDS Integers, Sequences, FiniteSets, TLC

(***************************************************************************)
(* Bounds of the model.                                                    *)
(***************************************************************************)
\* number of point patches in the input cloud of segment_walls
NumPatches == 6
\* largest number of points handed to create_floor_plan directly
MaxPlanPoints == 3
\* largest start-vertex shift applied to an input ring
MaxStartShift == 3

\* calculate_iou is applied to rectangles with corners on the grid 0..MaxGrid
MaxGrid == 2

\* worker threads running at the same time
NumWorkers == 2

\* largest cloud, in patches, on which the fits of a round are recorded
MaxRecordedPatches == 3

\* largest number of threads the application starts
MaxThreads == 3

(***************************************************************************)
(* Program constants.                                                      *)
(***************************************************************************)
\* AXIS_ALIGNMENT_TOLERANCE = 0.1 rad
AXIS_ALIGNMENT_TOLERANCE == 1000
\* math.pi and math.pi/2
PI == 31416
HALF_PI == 15708
\* "if length < 0.1: continue", as a squared length in (1/100 unit)^2
MIN_EDGE_LENGTH_SQ == 100
\* scale of the sine/cosine table and of the arctangent series
TRIG_SCALE == 10000
\* max rounds: "for _ in range(5)"
MAX_ROUNDS == 5
\* DBSCAN_MIN_POINTS = 30
DBSCAN_MIN_POINTS == 30
\* MIN_WALL_LENGTH = 0.8 (in 1/100 m)
MIN_WALL_LENGTH == 80
\* NORMAL_TOLERANCE = 0.2 (in 1/1000)
NORMAL_TOLERANCE == 200
\* len(RANSAC_DISTANCE_CANDIDATES)
NUM_THRESHOLDS == 4

RANDOM_SEED == 42

\* scores between 0.0 and 1.0 are kept in thousandths
IOU_SCALE == 1000

(***************************************************************************)
(* Arithmetic helpers.                                                     *)
(***************************************************************************)
Abs(x) == IF x < 0 THEN -x ELSE x

Sign(x) == IF x < 0 THEN -1 ELSE 1

\* division rounding to the nearest integer, halves away from zero
DivRound(n, d) == Sign(n) * ((2 * Abs(n) + d) \div (2 * d))

\* Python round(n / d): nearest integer, halves to the even neighbour (n >= 0)
RoundHalfEven(n, d) ==
    LET q == n \div d
        r == n % d
    IN  IF 2 * r < d THEN q
        ELSE IF 2 * r > d THEN q + 1
        ELSE IF q % 2 = 0 THEN q ELSE q + 1

RECURSIVE SqrtSearch(_, _, _)
SqrtSearch(n, lo, hi) ==
    IF lo >= hi THEN lo
    ELSE LET mid == (lo + hi + 1) \div 2
         IN  IF mid * mid <= n THEN SqrtSearch(n, mid, hi)
             ELSE SqrtSearch(n, lo, mid - 1)

\* math.sqrt, rounded down to the fixed-point grid
ISqrt(n) == SqrtSearch(n, 0, 46340)

RECURSIVE SumSeq(_)
SumSeq(s) == IF s = <<>> THEN 0 ELSE Head(s) + SumSeq(Tail(s))

\* arctangent series for 0 <= t <= tan(pi/8), t and result in 1/TRIG_SCALE
AtanSeries(t) ==
    LET t2 == (t * t) \div TRIG_SCALE
        p3 == (t * t2) \div TRIG_SCALE
        p5 == (p3 * t2) \div TRIG_SCALE
        p7 == (p5 * t2) \div TRIG_SCALE
        p9 == (p7 * t2) \div TRIG_SCALE
    IN  t - (p3 \div 3) + (p5 \div 5) - (p7 \div 7) + (p9 \div 9)

\* atan(b / a) for 0 <= b <= a, a > 0
AtanRatio(b, a) ==
    IF 29 * b <= 12 * a
    THEN AtanSeries((b * TRIG_SCALE) \div a)
    ELSE (HALF_PI \div 2) - AtanSeries(((a - b) * TRIG_SCALE) \div (a + b))

\* math.atan2(dy, dx) in (-PI, PI]
Atan2(dy, dx) ==
    LET ax == Abs(dx)
        ay == Abs(dy)
        first == IF ax = 0 /\ ay = 0 THEN 0
                 ELSE IF ay <= ax THEN AtanRatio(ay, ax)
                 ELSE HALF_PI - AtanRatio(ax, ay)
        upper == IF dx >= 0 THEN first ELSE PI - first
    IN  IF dy >= 0 THEN upper ELSE -upper

\* math.cos and math.sin at the multiples k * 0.1 rad, k = 0..16
CosTable == <<10000, 9950, 9801, 9553, 9211, 8776, 8253, 7648, 6967,
              6216, 5403, 4536, 3624, 2675, 1700, 707, -292>>

SinTable == <<0, 998, 1987, 2955, 3894, 4794, 5646, 6442, 7174,
              7833, 8415, 8912, 9320, 9636, 9854, 9975, 9996>>

Cos(angle) == CosTable[(Abs(angle) \div AXIS_ALIGNMENT_TOLERANCE) + 1]

Sin(angle) == Sign(angle) * SinTable[(Abs(angle) \div AXIS_ALIGNMENT_TOLERANCE) + 1]

(***************************************************************************)
(* Polygons (shapely Polygon as used by dxf_comparison.py).  A polygon is  *)
(* a record [kind, coords]: kind "None" is Python's None, kind "Polygon"   *)
(* carries the exterior ring as a closed sequence of <<x, y>> vertices     *)
(* (first = last); the empty polygon has coords = <<>>.                    *)
(***************************************************************************)
NonePolygon == [kind |-> "None", coords |-> <<>>]

\* Polygon(coords): the ring is closed if the caller left it open
Polygon(coords) ==
    [kind |-> "Polygon",
     coords |-> IF coords = <<>> \/ coords[1] = coords[Len(coords)]
                THEN coords ELSE Append(coords, coords[1])]

IsEmpty(polygon) == polygon.kind = "Polygon" /\ polygon.coords = <<>>

\* "not poly" (line 229): None and the empty geometry are falsy
Falsy(polygon) == polygon.kind = "None" \/ IsEmpty(polygon)

\* number of boundary edges: range(len(coords) - 1)
NumEdges(coords) == IF Len(coords) = 0 THEN 0 ELSE Len(coords) - 1

EdgeDx(coords, i) == coords[i + 1][1] - coords[i][1]

EdgeDy(coords, i) == coords[i + 1][2] - coords[i][2]

EdgeLengthSq(coords, i) ==
    EdgeDx(coords, i) * EdgeDx(coords, i) + EdgeDy(coords, i) * EdgeDy(coords, i)

\* LineString([p1, p2]).length
EdgeLength(coords, i) == ISqrt(EdgeLengthSq(coords, i))

\* QualifyingEdge without the test of lines 100-102: no edge is skipped
QualifyingEdgeNoSkip(coords, i) == EdgeLengthSq(coords, i) >= 0

\* the edges detect_principal_axes does not skip: not (length < 0.1)
QualifyingEdge(coords, i) == EdgeLengthSq(coords, i) >= MIN_EDGE_LENGTH_SQ

\* "angle = abs(angle) % (math.pi/2)"
FoldAngle(angle) == Abs(angle) % HALF_PI

\* "key = round(angle / AXIS_ALIGNMENT_TOLERANCE) * AXIS_ALIGNMENT_TOLERANCE"
BinKey(angle) ==
    RoundHalfEven(angle, AXIS_ALIGNMENT_TOLERANCE) * AXIS_ALIGNMENT_TOLERANCE

RECURSIVE EdgeKeysFrom(_, _)
\* the bin keys of the qualifying edges i.., in ring order
EdgeKeysFrom(coords, i) ==
    IF i > NumEdges(coords) THEN <<>>
    ELSE IF QualifyingEdge(coords, i)
         THEN <<BinKey(FoldAngle(Atan2(EdgeDy(coords, i), EdgeDx(coords, i))))>>
              \o EdgeKeysFrom(coords, i + 1)
         ELSE EdgeKeysFrom(coords, i + 1)

EdgeKeys(coords) == EdgeKeysFrom(coords, 1)

\* angle_counts[key]
KeyCount(keys, key) == Cardinality({i \in 1..Len(keys) : keys[i] = key})

\* max(angle_counts.items(), key=count)[0]: the dictionary keeps insertion
\* order and max returns the first of several maximal items
FirstMaxKey(keys) ==
    LET best == CHOOSE i \in 1..Len(keys) :
                  /\ \A j \in 1..Len(keys) : KeyCount(keys, keys[j]) <= KeyCount(keys, keys[i])
                  /\ \A j \in 1..(i - 1) : KeyCount(keys, keys[j]) < KeyCount(keys, keys[i])
    IN  keys[best]

detect_principal_axes(polygon) ==
    LET keys == EdgeKeys(polygon.coords)
    IN  IF keys # <<>> THEN FirstMaxKey(keys) ELSE 0

RECURSIVE CrossSum(_, _, _)
\* sum over the edges i.. of the cross products of consecutive vertices,
\* taken relative to the vertex base
CrossSum(coords, base, i) ==
    IF i > NumEdges(coords) THEN 0
    ELSE (coords[i][1] - base[1]) * (coords[i + 1][2] - base[2])
         - (coords[i + 1][1] - base[1]) * (coords[i][2] - base[2])
         + CrossSum(coords, base, i + 1)

\* polygon.area, in (1/100 unit)^2
Area(polygon) ==
    IF polygon.coords = <<>> THEN 0
    ELSE Abs(CrossSum(polygon.coords, polygon.coords[1], 1)) \div 2

RECURSIVE LengthFrom(_, _)
LengthFrom(coords, i) ==
    IF i > NumEdges(coords) THEN 0
    ELSE EdgeLength(coords, i) + LengthFrom(coords, i + 1)

\* polygon.length: the perimeter
Length(polygon) == LengthFrom(polygon.coords, 1)

\* reduction of the cross products that keeps the centroid sums in range
CentroidDivisor(coords) ==
    1 + (Abs(CrossSum(coords, coords[1], 1)) \div 10000)

RECURSIVE CentroidSum(_, _, _, _, _)
\* sum over the edges i.. of (v_i + v_i+1)[axis] * cross_i / divisor
CentroidSum(coords, base, divisor, axis, i) ==
    IF i > NumEdges(coords) THEN 0
    ELSE LET cross == (coords[i][1] - base[1]) * (coords[i + 1][2] - base[2])
                      - (coords[i + 1][1] - base[1]) * (coords[i][2] - base[2])
         IN  ((coords[i][axis] - base[axis]) + (coords[i + 1][axis] - base[axis]))
               * DivRound(cross, divisor)
             + CentroidSum(coords, base, divisor, axis, i + 1)

RECURSIVE WeightSum(_, _, _, _)
WeightSum(coords, base, divisor, i) ==
    IF i > NumEdges(coords) THEN 0
    ELSE LET cross == (coords[i][1] - base[1]) * (coords[i + 1][2] - base[2])
                      - (coords[i + 1][1] - base[1]) * (coords[i][2] - base[2])
         IN  DivRound(cross, divisor) + WeightSum(coords, base, divisor, i + 1)

\* polygon.centroid of a polygon of positive area: the area-weighted mean
Centroid(polygon) ==
    LET coords == polygon.coords
        base == coords[1]
        d == CentroidDivisor(coords)
        w == WeightSum(coords, base, d, 1)
    IN  <<base[1] + DivRound(Sign(w) * CentroidSum(coords, base, d, 1, 1), 3 * Abs(w)),
          base[2] + DivRound(Sign(w) * CentroidSum(coords, base, d, 2, 1), 3 * Abs(w))>>

\* one vertex of rotate_polygon: translate to the centroid, rotate, translate back
RotatePoint(p, c, angle) ==
    LET tx == p[1] - c[1]
        ty == p[2] - c[2]
    IN  <<DivRound(tx * Cos(angle) - ty * Sin(angle), TRIG_SCALE) + c[1],
          DivRound(tx * Sin(angle) + ty * Cos(angle), TRIG_SCALE) + c[2]>>

rotate_polygon(polygon, angle) ==
    IF angle = 0 THEN polygon
    ELSE LET c == Centroid(polygon)
         IN  Polygon([i \in 1..Len(polygon.coords) |->
                        RotatePoint(polygon.coords[i], c, angle)])

translate_polygon(polygon, dx, dy) ==
    Polygon([i \in 1..Len(polygon.coords) |->
               <<polygon.coords[i][1] + dx, polygon.coords[i][2] + dy>>])

\* RotationAngle with the candidate's own axis left out
RotationAngleReferenceOnly(reference_polygon, extracted_polygon) ==
    detect_principal_axes(reference_polygon)

\* "rotation_angle = ref_angle - ext_angle"
RotationAngle(reference_polygon, extracted_polygon) ==
    detect_principal_axes(reference_polygon) - detect_principal_axes(extracted_polygon)

\* Translation with the two centroids exchanged
TranslationReversed(reference_polygon, rotated_polygon) ==
    <<Centroid(rotated_polygon)[1] - Centroid(reference_polygon)[1],
      Centroid(rotated_polygon)[2] - Centroid(reference_polygon)[2]>>

\* the translation (dx, dy) of align_polygons
Translation(reference_polygon, rotated_polygon) ==
    <<Centroid(reference_polygon)[1] - Centroid(rotated_polygon)[1],
      Centroid(reference_polygon)[2] - Centroid(rotated_polygon)[2]>>

align_polygons(reference_polygon, extracted_polygon) ==
    LET rotated_polygon == rotate_polygon(extracted_polygon,
                               RotationAngle(reference_polygon, extracted_polygon))
        t == Translation(reference_polygon, rotated_polygon)
    IN  translate_polygon(rotated_polygon, t[1], t[2])

(***************************************************************************)
(* The point cloud of segment_walls.  The cloud is a sequence of patches,  *)
(* each a block of neighbouring points that plane fitting and clustering   *)
(* keep together; a cloud, a selection and an index list are sequences or  *)
(* sets of positions, as in open3d's select_by_index.                      *)
(***************************************************************************)
Patches == 1..NumPatches

\* the patches repeat six kinds of surface
PatchKind(p) == ((p - 1) % 6) + 1

\* number of points of a patch
PatchSize(p) == <<30, 30, 10, 20, 30, 10>>[PatchKind(p)]

\* DBSCAN neighbourhood of a patch: 0 is sparse (noise), 1 and 2 are dense regions
PatchRegion(p) == <<1, 2, 0, 1, 2, 0>>[PatchKind(p)]

\* length of a patch along its wall, in 1/100 m
PatchExtent(p) == <<60, 90, 30, 60, 90, 30>>[PatchKind(p)]

\* c coefficient, in 1/1000, of the plane through a patch
PatchTilt(p) == <<0, -1000, 0, 150, 200, -1000>>[PatchKind(p)]

NoModel == [c |-> 0]

\* segment_plane's plane_model for a set of inliers: the plane of the last one
PlaneModel(cloud, inliers) ==
    IF inliers = {} THEN NoModel
    ELSE [c |-> PatchTilt(cloud[CHOOSE i \in inliers : \A j \in inliers : j <= i])]

\* len(cloud.points)
NumPoints(cloud) == SumSeq([i \in 1..Len(cloud) |-> PatchSize(cloud[i])])

\* len(inliers), counted in points
InlierCount(cloud, inliers) ==
    SumSeq([i \in 1..Len(cloud) |-> IF i \in inliers THEN PatchSize(cloud[i]) ELSE 0])

RECURSIVE SelectFrom(_, _, _, _)
SelectFrom(cloud, indices, invert, i) ==
    IF i > Len(cloud) THEN <<>>
    ELSE IF (i \in indices) # invert
         THEN <<cloud[i]>> \o SelectFrom(cloud, indices, invert, i + 1)
         ELSE SelectFrom(cloud, indices, invert, i + 1)

\* cloud.select_by_index(indices, invert): the selected points, in cloud order
select_by_index(cloud, indices, invert) == SelectFrom(cloud, indices, invert, 1)

\* dense regions met before position i of the cloud, region of cloud[i] excluded
RegionsBefore(cloud, i) ==
    {PatchRegion(cloud[j]) : j \in 1..(i - 1)} \ {0, PatchRegion(cloud[i])}

\* cluster_dbscan: -1 for noise, clusters numbered from 0 in order of appearance
cluster_dbscan(cloud) ==
    [i \in 1..Len(cloud) |->
        IF PatchRegion(cloud[i]) = 0 THEN -1
        ELSE Cardinality(RegionsBefore(cloud, i))]

\* numpy.bincount(labels[labels >= 0])[label]
LabelCount(cloud, labels, label) ==
    SumSeq([i \in 1..Len(cloud) |-> IF labels[i] = label THEN PatchSize(cloud[i]) ELSE 0])

LabelMax(labels) ==
    CHOOSE m \in {labels[i] : i \in 1..Len(labels)} :
        \A i \in 1..Len(labels) : labels[i] <= m

\* numpy.argmax(bincount): the first label with the largest count
MajorityLabel(cloud, labels) ==
    CHOOSE l \in 0..LabelMax(labels) :
        /\ \A k \in 0..LabelMax(labels) :
              LabelCount(cloud, labels, k) <= LabelCount(cloud, labels, l)
        /\ \A k \in 0..(l - 1) :
              LabelCount(cloud, labels, k) < LabelCount(cloud, labels, l)

\* MainClusterIndices that keeps the noise points with the majority cluster
MainClusterIndicesWithNoise(cloud, labels) ==
    {i \in 1..Len(cloud) : labels[i] \in {MajorityLabel(cloud, labels), -1}}

\* numpy.where(labels == majority_label)[0]
MainClusterIndices(cloud, labels) ==
    {i \in 1..Len(cloud) : labels[i] = MajorityLabel(cloud, labels)}

\* max(obb.extent) of a cluster
MaxExtent(cluster) == SumSeq([i \in 1..Len(cluster) |-> PatchExtent(cluster[i])])

\* the verticality test "abs(c) < NORMAL_TOLERANCE"
\* IsVertical that also takes a normal with |c| equal to the tolerance
IsVerticalInclusive(model) == Abs(model.c) <= NORMAL_TOLERANCE

IsVertical(model) == Abs(model.c) < NORMAL_TOLERANCE

\* BetterFit that lets a later fit of the same size replace the kept one
BetterFitOrEqual(cloud, inliers, best) ==
    InlierCount(cloud, inliers) >= InlierCount(cloud, best)

\* the threshold loop's update test "len(inliers) > len(best_inliers)"
BetterFit(cloud, inliers, best) ==
    InlierCount(cloud, inliers) > InlierCount(cloud, best)

\* AcceptedWall without the test of line 98 on the bounding box
AcceptedWallAnyLength(cloud, inliers, model) ==
    IF ~IsVertical(model) THEN <<>>
    ELSE LET wall_cloud == select_by_index(cloud, inliers, FALSE)
             labels == cluster_dbscan(wall_cloud)
         IN  IF LabelMax(labels) < 0 THEN <<>>
             ELSE LET main_cluster_indices == MainClusterIndices(wall_cloud, labels)
                      main_cluster == select_by_index(wall_cloud, main_cluster_indices, FALSE)
                  IN  IF NumPoints(main_cluster) >= DBSCAN_MIN_POINTS
                      THEN <<[points |-> {main_cluster[i] : i \in 1..Len(main_cluster)},
                              indices |-> main_cluster_indices,
                              model |-> model]>>
                      ELSE <<>>

\* lines 88-102: the wall the round accepts, as <<wall>> or <<>>;
\* a wall is [points, indices, model]
AcceptedWall(cloud, inliers, model) ==
    IF ~IsVertical(model) THEN <<>>
    ELSE LET wall_cloud == select_by_index(cloud, inliers, FALSE)
             labels == cluster_dbscan(wall_cloud)
         IN  IF LabelMax(labels) < 0 THEN <<>>
             ELSE LET main_cluster_indices == MainClusterIndices(wall_cloud, labels)
                      main_cluster == select_by_index(wall_cloud, main_cluster_indices, FALSE)
                  IN  IF NumPoints(main_cluster) >= DBSCAN_MIN_POINTS
                         /\ MaxExtent(main_cluster) >= MIN_WALL_LENGTH
                      THEN <<[points |-> {main_cluster[i] : i \in 1..Len(main_cluster)},
                              indices |-> main_cluster_indices,
                              model |-> model]>>
                      ELSE <<>>

\* RemoveInliers that leaves the cloud as it is
RemoveInliersSkipped(cloud, inliers) == cloud

\* RemoveInliers with "invert=True" forgotten: the inliers are kept instead
RemoveInliersNotInverted(cloud, inliers) == select_by_index(cloud, inliers, FALSE)

\* "remaining_cloud = remaining_cloud.select_by_index(best_inliers, invert=True)"
RemoveInliers(cloud, inliers) == select_by_index(cloud, inliers, TRUE)

(***************************************************************************)
(* State.                                                                  *)
(***************************************************************************)
VARIABLES
    \* segment_walls
    remaining_cloud,        \* the points not yet removed
    round,                  \* iterations of "for _ in range(5)" begun
    threshold,              \* thresholds tried in the current round
    best_inliers,           \* positions in remaining_cloud
    best_model,             \* plane of best_inliers
    walls,                  \* vertical_wall_points, walls_indices, wall_models
    seg_pc,                 \* "loop", "fit", "evaluate", "finish", "returned", "raised"
    seg_result,             \* the returned tuple, or the error raised
    \* create_floor_plan
    points_xy,              \* the argument
    plan_pc,                \* "idle", "call", "returned", "raised"
    plan_result,            \* the geometry returned, or the error raised
    \* compare_floorplans and compare_floorplans_detailed
    cmp_op,                 \* "summary" or "detailed"
    cmp_input,              \* the vertex lists of the two drawings and how the second was made
    ref_poly,
    gen_poly,
    alignment,              \* what align_polygons computed
    cmp_pc,                 \* "idle", "call", "loaded", "aligned", "checked", "returned", "raised"
    cmp_result,             \* the metrics returned, or the error raised
    \* calculate_iou
    poly1,                  \* the arguments
    poly2,
    iou_pc,                 \* "idle", "call", "returned"
    iou_result,             \* the score returned
    \* a second call of segment_walls on the same point cloud
    earlier_result,         \* what the first call returned or raised
    fits,                   \* what segment_plane returned in this round, if recorded
    \* the worker threads of gui_app.py
    workers,                \* per thread: its class, arguments, position and signals
    numpy_random_state,     \* the seed of numpy's process-wide generator
    events,                 \* the signals emitted and not yet handled, oldest first
    app,                    \* the attributes of FloorPlanApp
    \* align_polygons on polygon objects
    objects,                \* the polygon objects that exist, by reference
    align_frame             \* align_polygons' position and what its names refer to

seg_vars == <<remaining_cloud, round, threshold, best_inliers, best_model,
              walls, seg_pc, seg_result, fits>>

plan_vars == <<points_xy, plan_pc, plan_result>>

cmp_vars == <<cmp_op, cmp_input, ref_poly, gen_poly, alignment, cmp_pc, cmp_result>>

iou_vars == <<poly1, poly2, iou_pc, iou_result>>

worker_vars == <<workers, numpy_random_state, events>>

align_vars == <<objects, align_frame>>

vars == <<seg_vars, plan_vars, cmp_vars, iou_vars, earlier_result, worker_vars, align_vars, app>>

\* what the steps of one function leave alone: the state of the others
not_seg_vars == <<plan_vars, cmp_vars, iou_vars, earlier_result, worker_vars, align_vars, app>>

not_plan_vars == <<seg_vars, cmp_vars, iou_vars, earlier_result, worker_vars, align_vars, app>>

not_cmp_vars == <<seg_vars, plan_vars, iou_vars, earlier_result, worker_vars, align_vars, app>>

not_worker_vars == <<seg_vars, plan_vars, cmp_vars, iou_vars, earlier_result, align_vars, app>>

not_align_vars == <<seg_vars, plan_vars, cmp_vars, iou_vars, earlier_result, worker_vars, app>>

not_app_vars == <<seg_vars, plan_vars, cmp_vars, iou_vars, earlier_result, align_vars>>

not_iou_vars == <<seg_vars, plan_vars, cmp_vars, earlier_result, worker_vars, align_vars, app>>

NoResult == [kind |-> "none"]

\* the fits of a round are not recorded
NotRecorded == [recording |-> FALSE, round |-> <<>>]

SegIdle ==
    /\ earlier_result = NoResult
    /\ fits = NotRecorded
    /\ remaining_cloud = <<>>
    /\ round = 0
    /\ threshold = 0
    /\ best_inliers = {}
    /\ best_model = NoModel
    /\ walls = <<>>
    /\ seg_pc = "idle"
    /\ seg_result = NoResult

PlanIdle ==
    /\ points_xy = <<>>
    /\ plan_pc = "idle"
    /\ plan_result = NoResult

NoAlignment ==
    [entered |-> FALSE, ref_angle |-> 0, ext_angle |-> 0,
     rotation_angle |-> 0, translation |-> <<0, 0>>]

NoInput == [reference |-> <<>>, generated |-> <<>>, ref_base |-> 0,
            gen_base |-> 0, quarter_turns |-> 0, start_shift |-> 0]

CmpIdle ==
    /\ cmp_op = "none"
    /\ cmp_input = NoInput
    /\ ref_poly = NonePolygon
    /\ gen_poly = NonePolygon
    /\ alignment = NoAlignment
    /\ cmp_pc = "idle"
    /\ cmp_result = NoResult

IouIdle ==
    /\ poly1 = NonePolygon
    /\ poly2 = NonePolygon
    /\ iou_pc = "idle"
    /\ iou_result = NoResult

\* numpy's generator as the interpreter starts it: seeded from the system
Entropy == -1

\* a name that is not bound yet, or is bound to None
Unbound == 0

\* FloorPlanApp.__init__, gui_app.py lines 116-125, and the buttons as initUI
\* leaves them (lines 190 and 194)
NewApp == [state |-> "running",
           point_cloud_path |-> "",
           points_xy |-> <<>>,
           polygon |-> <<>>,
           processing_thread |-> Unbound,
           pcd_merge_thread |-> Unbound,
           merged_pcd_path |-> "",
           exportBtn |-> FALSE,
           compareBtn |-> FALSE]

WorkersIdle ==
    /\ workers = <<>>
    /\ numpy_random_state = Entropy
    /\ events = <<>>
    /\ app = [NewApp EXCEPT !.state = "none"]

NoFrame == [pc |-> "idle", input |-> NoInput,
            reference_polygon |-> Unbound, extracted_polygon |-> Unbound,
            rotated_polygon |-> Unbound, aligned_polygon |-> Unbound]

AlignIdle ==
    /\ objects = <<>>
    /\ align_frame = NoFrame

(***************************************************************************)
(* segment_walls(pcd), floor_plan_extractor.py lines 58-112.               *)
(***************************************************************************)
\* lines 61-66: the state on entry, pcd being the whole cloud
SegInit ==
    /\ earlier_result = NoResult
    /\ fits = NotRecorded
    /\ remaining_cloud = [i \in Patches |-> i]
    /\ round = 0
    /\ threshold = 0
    /\ best_inliers = {}
    /\ best_model = NoModel
    /\ walls = <<>>
    /\ seg_pc = "loop"
    /\ seg_result = NoResult

\* line 68: range(5) is exhausted
LoopExhausted ==
    /\ seg_pc = "loop"
    /\ round = MAX_ROUNDS
    /\ seg_pc' = "finish"
    /\ UNCHANGED <<remaining_cloud, round, threshold, best_inliers, best_model,
                   walls, seg_result>>
    /\ UNCHANGED fits
    /\ UNCHANGED not_seg_vars

\* lines 69-70: "if len(remaining_cloud.points) == 0: break"
BreakEmpty ==
    /\ seg_pc = "loop"
    /\ round < MAX_ROUNDS
    /\ Len(remaining_cloud) = 0
    /\ round' = round + 1
    /\ seg_pc' = "finish"
    /\ UNCHANGED <<remaining_cloud, threshold, best_inliers, best_model,
                   walls, seg_result>>
    /\ UNCHANGED fits
    /\ UNCHANGED not_seg_vars

\* lines 72-73: a round begins
BeginRound ==
    /\ seg_pc = "loop"
    /\ round < MAX_ROUNDS
    /\ Len(remaining_cloud) # 0
    /\ round' = round + 1
    /\ best_inliers' = {}
    /\ best_model' = NoModel
    /\ threshold' = 0
    /\ seg_pc' = "fit"
    /\ UNCHANGED <<remaining_cloud, walls, seg_result>>
    /\ fits' = [fits EXCEPT !.round = <<>>]
    /\ UNCHANGED not_seg_vars

\* lines 74-82: one threshold of RANSAC_DISTANCE_CANDIDATES; segment_plane
\* returns some of the remaining points as the inliers of their plane
FitPlane ==
    /\ seg_pc = "fit"
    /\ threshold < NUM_THRESHOLDS
    /\ \E inliers \in SUBSET (1..Len(remaining_cloud)) :
          /\ threshold' = threshold + 1
          /\ IF BetterFit(remaining_cloud, inliers, best_inliers)
             THEN /\ best_inliers' = inliers
                  /\ best_model' = PlaneModel(remaining_cloud, inliers)
             ELSE UNCHANGED <<best_inliers, best_model>>
          /\ fits' = IF fits.recording
                     THEN [fits EXCEPT !.round =
                             Append(@, [cloud |-> remaining_cloud,
                                        inliers |-> inliers,
                                        model |-> PlaneModel(remaining_cloud, inliers)])]
                     ELSE fits
    /\ UNCHANGED <<remaining_cloud, round, walls, seg_pc, seg_result>>
    /\ UNCHANGED not_seg_vars

\* line 74: the threshold list is exhausted
ThresholdsDone ==
    /\ seg_pc = "fit"
    /\ threshold = NUM_THRESHOLDS
    /\ seg_pc' = "evaluate"
    /\ UNCHANGED <<remaining_cloud, round, threshold, best_inliers, best_model,
                   walls, seg_result>>
    /\ UNCHANGED fits
    /\ UNCHANGED not_seg_vars

\* lines 84-85: "if not best_inliers: break"
BreakNoInliers ==
    /\ seg_pc = "evaluate"
    /\ best_inliers = {}
    /\ seg_pc' = "finish"
    /\ UNCHANGED <<remaining_cloud, round, threshold, best_inliers, best_model,
                   walls, seg_result>>
    /\ UNCHANGED fits
    /\ UNCHANGED not_seg_vars

\* lines 87-104: accept or reject the round's wall, then remove the inliers
EvaluateRound ==
    /\ seg_pc = "evaluate"
    /\ best_inliers # {}
    /\ walls' = walls \o AcceptedWall(remaining_cloud, best_inliers, best_model)
    /\ remaining_cloud' = RemoveInliers(remaining_cloud, best_inliers)
    /\ seg_pc' = "loop"
    /\ UNCHANGED <<round, threshold, best_inliers, best_model, seg_result>>
    /\ UNCHANGED fits
    /\ UNCHANGED not_seg_vars

\* lines 106-108: "if not vertical_wall_points: raise RuntimeError(...)"
RaiseNoWalls ==
    /\ seg_pc = "finish"
    /\ walls = <<>>
    /\ seg_pc' = "raised"
    /\ seg_result' = [kind |-> "RuntimeError", message |-> "No vertical walls found."]
    /\ UNCHANGED <<remaining_cloud, round, threshold, best_inliers, best_model, walls>>
    /\ UNCHANGED fits
    /\ UNCHANGED not_seg_vars

\* ReturnWalls without the test of lines 106-108
ReturnWallsUnchecked ==
    /\ seg_pc = "finish"
    /\ seg_pc' = "returned"
    /\ seg_result' =
          [kind |-> "tuple",
           points_xy |-> UNION {walls[i].points : i \in 1..Len(walls)},
           walls_indices |-> [i \in 1..Len(walls) |-> walls[i].indices],
           wall_models |-> [i \in 1..Len(walls) |-> walls[i].model]]
    /\ UNCHANGED <<remaining_cloud, round, threshold, best_inliers, best_model, walls>>
    /\ UNCHANGED fits
    /\ UNCHANGED not_seg_vars

\* lines 110-112: return all_wall_points[:, :2], walls_indices, wall_models
ReturnWalls ==
    /\ seg_pc = "finish"
    /\ walls # <<>>
    /\ seg_pc' = "returned"
    /\ seg_result' =
          [kind |-> "tuple",
           points_xy |-> UNION {walls[i].points : i \in 1..Len(walls)},
           walls_indices |-> [i \in 1..Len(walls) |-> walls[i].indices],
           wall_models |-> [i \in 1..Len(walls) |-> walls[i].model]]
    /\ UNCHANGED <<remaining_cloud, round, threshold, best_inliers, best_model, walls>>
    /\ UNCHANGED fits
    /\ UNCHANGED not_seg_vars

SegNext ==
    \/ LoopExhausted
    \/ BreakEmpty
    \/ BeginRound
    \/ FitPlane
    \/ ThresholdsDone
    \/ BreakNoInliers
    \/ EvaluateRound
    \/ RaiseNoWalls
    \/ ReturnWalls

InitSeg == SegInit /\ PlanIdle /\ CmpIdle /\ IouIdle /\ WorkersIdle /\ AlignIdle

SpecSeg == InitSeg /\ [][SegNext]_vars

\* segment_walls is called once more with the same pcd, as a second
\* ProcessingThread on the same file calls it (gui_app.py line 30)
SegCallAgain ==
    /\ seg_pc \in {"returned", "raised"}
    /\ earlier_result = NoResult
    /\ earlier_result' = seg_result
    /\ remaining_cloud' = [i \in Patches |-> i]
    /\ round' = 0
    /\ threshold' = 0
    /\ best_inliers' = {}
    /\ best_model' = NoModel
    /\ walls' = <<>>
    /\ seg_pc' = "loop"
    /\ seg_result' = NoResult
    /\ UNCHANGED fits
    /\ UNCHANGED <<plan_vars, cmp_vars, iou_vars, worker_vars, align_vars, app>>

\* segment_walls on a cloud of a few patches, the fits of each round recorded
SegInitRecorded ==
    /\ earlier_result = NoResult
    /\ fits = [recording |-> TRUE, round |-> <<>>]
    /\ \E size \in 1..MaxRecordedPatches : remaining_cloud = [i \in 1..size |-> i]
    /\ round = 0
    /\ threshold = 0
    /\ best_inliers = {}
    /\ best_model = NoModel
    /\ walls = <<>>
    /\ seg_pc = "loop"
    /\ seg_result = NoResult

\* each round removes a patch at least, so that a cloud of fewer than
\* MAX_ROUNDS patches is empty before range(5) is exhausted
SegRecordedNext ==
    \/ BreakEmpty
    \/ BeginRound
    \/ FitPlane
    \/ ThresholdsDone
    \/ BreakNoInliers
    \/ EvaluateRound
    \/ RaiseNoWalls
    \/ ReturnWalls

InitSegRecorded == SegInitRecorded /\ PlanIdle /\ CmpIdle /\ IouIdle /\ WorkersIdle /\ AlignIdle

SpecSegRecorded == InitSegRecorded /\ [][SegRecordedNext]_vars

SegTwiceNext ==
    \/ LoopExhausted
    \/ BreakEmpty
    \/ BeginRound
    \/ FitPlane
    \/ ThresholdsDone
    \/ BreakNoInliers
    \/ EvaluateRound
    \/ RaiseNoWalls
    \/ ReturnWalls
    \/ SegCallAgain

SpecSegTwice == InitSeg /\ [][SegTwiceNext]_vars

(***************************************************************************)
(* create_floor_plan(points_xy), floor_plan_extractor.py lines 114-122.    *)
(***************************************************************************)
\* the coordinates the points of a direct call are drawn from
PlanCoordinates == {0, 100}

PlanPoints == PlanCoordinates \X PlanCoordinates

RECURSIVE SeqsUpTo(_, _)
\* the sequences over S of length at most n
SeqsUpTo(S, n) ==
    IF n = 0 THEN {<<>>}
    ELSE LET shorter == SeqsUpTo(S, n - 1)
         IN  shorter \cup {Append(q, x) : q \in shorter, x \in S}

Collinear(points) ==
    \A i, j, k \in 1..Len(points) :
        (points[j][1] - points[i][1]) * (points[k][2] - points[i][2])
          = (points[k][1] - points[i][1]) * (points[j][2] - points[i][2])

\* MultiPoint(points).minimum_rotated_rectangle: the convex hull itself when it
\* is a point or a segment; for points on the corners of an axis-parallel
\* square the smallest enclosing rectangle is their bounding box
minimum_rotated_rectangle(points) ==
    LET xs == {points[i][1] : i \in 1..Len(points)}
        ys == {points[i][2] : i \in 1..Len(points)}
        lo(S) == CHOOSE v \in S : \A w \in S : v <= w
        hi(S) == CHOOSE v \in S : \A w \in S : w <= v
    IN  IF Cardinality({points[i] : i \in 1..Len(points)}) = 1
        THEN [kind |-> "Point", coords |-> <<points[1]>>]
        ELSE IF Collinear(points)
        THEN [kind |-> "LineString",
              coords |-> <<<<lo(xs), lo(ys)>>, <<hi(xs), hi(ys)>>>>]
        ELSE Polygon(<<<<lo(xs), lo(ys)>>, <<hi(xs), lo(ys)>>,
                       <<hi(xs), hi(ys)>>, <<lo(xs), hi(ys)>>>>)

PlanInit ==
    /\ points_xy \in SeqsUpTo(PlanPoints, MaxPlanPoints)
    /\ plan_pc = "call"
    /\ plan_result = NoResult

\* lines 116-117: "if len(points_xy) == 0: raise RuntimeError(...)"
PlanRaiseNoPoints ==
    /\ plan_pc = "call"
    /\ Len(points_xy) = 0
    /\ plan_pc' = "raised"
    /\ plan_result' = [kind |-> "RuntimeError", coords |-> <<>>]
    /\ UNCHANGED points_xy
    /\ UNCHANGED not_plan_vars

\* lines 118-122: the rectangle is built and returned
PlanReturn ==
    /\ plan_pc = "call"
    /\ Len(points_xy) # 0
    /\ plan_pc' = "returned"
    /\ plan_result' = minimum_rotated_rectangle(points_xy)
    /\ UNCHANGED points_xy
    /\ UNCHANGED not_plan_vars

PlanNext ==
    \/ PlanRaiseNoPoints
    \/ PlanReturn

InitPlan == PlanInit /\ SegIdle /\ CmpIdle /\ IouIdle /\ WorkersIdle /\ AlignIdle

SpecPlan == InitPlan /\ [][PlanNext]_vars

(***************************************************************************)
(* compare_floorplans and compare_floorplans_detailed, dxf_comparison.py   *)
(* lines 191-276, on drawings given as the vertex lists their DXF entities *)
(* hold.                                                                   *)
(***************************************************************************)
\* float('nan'), for an area, a length or a difference, which are never negative
NaN == -1

\* a geometry whose coordinates are NaN
NaNPolygon == [kind |-> "NaN", coords |-> <<>>]

\* the 10 x 5 rectangle, and the same rectangle turned by 30 degrees and moved by (3, 3)
Rectangle == <<<<0, 0>>, <<1000, 0>>, <<1000, 500>>, <<0, 500>>>>

RectangleTurned30 == <<<<300, 300>>, <<1166, 800>>, <<916, 1233>>, <<50, 733>>>>

\* a square standing on a corner, edges along (1, 2) and (-2, 1)
TiltedSquare == <<<<200, 0>>, <<300, 200>>, <<100, 300>>, <<0, 100>>>>

\* a narrow triangle with two long edges just off the vertical
Spire == <<<<0, 0>>, <<10, 1000>>, <<20, 0>>>>

\* triangles with every edge shorter than 0.1
Speck == <<<<0, 0>>, <<6, 0>>, <<0, 6>>>>

SpeckTilted == <<<<0, 0>>, <<4, 4>>, <<-4, 4>>>>

\* a triangle with one edge of at least 0.1 only
Sliver == <<<<0, 0>>, <<9, 9>>, <<5, 4>>>>

\* three vertices on one line, one LINE entity, and a drawing without entities
Flat == <<<<0, 0>>, <<100, 0>>, <<200, 0>>>>

OneLine == <<<<0, 0>>, <<100, 0>>>>

NoEntities == <<>>

Drawings == <<Rectangle, RectangleTurned30, TiltedSquare, Spire, Speck,
              SpeckTilted, Sliver, Flat, OneLine, NoEntities>>

\* a vertex list turned by a quarter turn about the origin, k times
RECURSIVE QuarterTurns(_, _)
QuarterTurns(vertices, k) ==
    IF k = 0 THEN vertices
    ELSE QuarterTurns([i \in 1..Len(vertices) |-> <<-vertices[i][2], vertices[i][1]>>],
                      k - 1)

\* the same ring written from a later vertex on
StartShifted(vertices, shift) ==
    [i \in 1..Len(vertices) |-> vertices[((i - 1 + shift) % Len(vertices)) + 1]]

\* poly.is_valid, for the rings of Drawings: they are simple unless flat
IsValid(polygon) == Area(polygon) > 0

\* load_dxf_polygon, lines 62-84, from the vertices collected in lines 67-73;
\* Polygon(vertices) raises ValueError for a ring of fewer than 3 vertices, and
\* buffer(0) of a flat ring is the empty polygon
load_dxf_polygon(vertices) ==
    IF vertices = <<>> THEN NonePolygon
    ELSE IF Len(vertices) < 3 THEN [kind |-> "ValueError", coords |-> <<>>]
    ELSE IF ~IsValid(Polygon(vertices)) THEN Polygon(<<>>)
    ELSE Polygon(vertices)

\* the outcome of align_polygons, lines 126-154, as [error, polygon, alignment].
\* None has no exterior (AttributeError, line 91).  The centroid of an empty
\* polygon is an empty point, whose x is an IndexError or NaN, as shapely has
\* it (lines 150-151); nan_centroid says which.
AlignOutcome(reference_polygon, extracted_polygon, nan_centroid) ==
    IF reference_polygon.kind = "None" \/ extracted_polygon.kind = "None"
    THEN [error |-> "AttributeError", polygon |-> extracted_polygon,
          alignment |-> [entered |-> TRUE, ref_angle |-> 0, ext_angle |-> 0,
                         rotation_angle |-> 0, translation |-> <<0, 0>>]]
    ELSE LET ref_angle == detect_principal_axes(reference_polygon)
             ext_angle == detect_principal_axes(extracted_polygon)
             rotation_angle == RotationAngle(reference_polygon, extracted_polygon)
         IN  IF IsEmpty(reference_polygon) \/ IsEmpty(extracted_polygon)
             THEN [error |-> IF nan_centroid THEN "none" ELSE "IndexError",
                   polygon |-> IF ~nan_centroid THEN extracted_polygon
                               ELSE IF IsEmpty(extracted_polygon) THEN Polygon(<<>>)
                               ELSE NaNPolygon,
                   alignment |-> [entered |-> TRUE, ref_angle |-> ref_angle,
                                  ext_angle |-> ext_angle,
                                  rotation_angle |-> rotation_angle,
                                  translation |-> <<0, 0>>]]
             ELSE [error |-> "none",
                   polygon |-> align_polygons(reference_polygon, extracted_polygon),
                   alignment |-> [entered |-> TRUE, ref_angle |-> ref_angle,
                                  ext_angle |-> ext_angle,
                                  rotation_angle |-> rotation_angle,
                                  translation |->
                                      Translation(reference_polygon,
                                          rotate_polygon(extracted_polygon, rotation_angle))]]

\* polygon.area and polygon.length, NaN for NaN coordinates
AreaOrNaN(polygon) == IF polygon.kind = "NaN" THEN NaN ELSE Area(polygon)

LengthOrNaN(polygon) == IF polygon.kind = "NaN" THEN NaN ELSE Length(polygon)

\* abs(a - b)
AbsDifference(a, b) == IF a = NaN \/ b = NaN THEN NaN ELSE Abs(a - b)

\* "(diff / ref) * 100 if ref > 0 else 0", in tenths of a percent
PercentDifference(diff, ref) == IF ref > 0 THEN (diff * 1000) \div ref ELSE 0

\* SimilarityScore clamped to the range from 0 up
SimilarityScoreClamped(area_diff_percent, perimeter_difference_percent) ==
    IF (area_diff_percent + perimeter_difference_percent) \div 2 > 1000 THEN 0
    ELSE 1000 - ((area_diff_percent + perimeter_difference_percent) \div 2)

\* "100 - ((area_diff_percent + perimeter_difference_percent) / 2)", in tenths
SimilarityScore(area_diff_percent, perimeter_difference_percent) ==
    1000 - ((area_diff_percent + perimeter_difference_percent) \div 2)

\* lines 201-218: the ComparisonMetrics
ComparisonMetrics(reference, extracted) ==
    LET area_ref == Area(reference)
        area_gen == AreaOrNaN(extracted)
        area_diff == AbsDifference(area_ref, area_gen)
        area_diff_percent == PercentDifference(area_diff, area_ref)
        perimeter_reference == Length(reference)
        perimeter_extracted == LengthOrNaN(extracted)
        perimeter_difference == AbsDifference(perimeter_reference, perimeter_extracted)
        perimeter_difference_percent ==
            PercentDifference(perimeter_difference, perimeter_reference)
    IN  [kind |-> "ComparisonMetrics",
         area_reference |-> area_ref,
         area_extracted |-> area_gen,
         area_difference |-> area_diff,
         area_difference_percent |-> area_diff_percent,
         perimeter_reference |-> perimeter_reference,
         perimeter_extracted |-> perimeter_extracted,
         perimeter_difference |-> perimeter_difference,
         perimeter_difference_percent |-> perimeter_difference_percent,
         similarity_score |->
             SimilarityScore(area_diff_percent, perimeter_difference_percent)]

\* lines 241-252: for every reference wall the pair appended in line 252;
\* gen_wall is the wall the inner loop built last
WallLengthDifferences(ref_coords, gen_coords) ==
    [i \in 1..NumEdges(ref_coords) |->
        <<EdgeLength(ref_coords, i), EdgeLength(gen_coords, NumEdges(gen_coords))>>]

\* numpy.degrees, from 1/10000 rad to tenths of a degree
Degrees(angle) == DivRound(angle * 1800, PI)

\* line 263: the turn from edge v1 = (x1, y1) to edge v2 = (x2, y2),
\* "degrees(arctan2(cross(v1, v2), dot(v1, v2)))"; the two products are
\* reduced by a common divisor so that the fixed-point quotient stays in range
TurnBetween(x1, y1, x2, y2) ==
    LET cross == x1 * y2 - y1 * x2
        dot == x1 * x2 + y1 * y2
    IN  CHOOSE angle \in {Degrees(Atan2(cross \div k, dot \div k)) :
                             k \in {1 + ((Abs(cross) + Abs(dot)) \div 100000)}} : TRUE

\* lines 261-263 for the loop index i (from 1): the turn at vertex i + 1
TurnAngle(coords, i) ==
    TurnBetween(coords[i + 1][1] - coords[i][1], coords[i + 1][2] - coords[i][2],
                coords[i + 2][1] - coords[i + 1][1], coords[i + 2][2] - coords[i + 1][2])

\* lines 259-264: "for i in range(len(coords) - 2)"
TurnAngles(coords) == [i \in 1..(Len(coords) - 2) |-> TurnAngle(coords, i)]

\* line 267: "min(abs(ref_angle - gen_angle) for gen_angle in gen_angles)"
MinAngleDifference(ref_angle, gen_angles) ==
    CHOOSE d \in {Abs(ref_angle - gen_angles[j]) : j \in 1..Len(gen_angles)} :
        \A j \in 1..Len(gen_angles) : d <= Abs(ref_angle - gen_angles[j])

\* lines 266-268: one difference per reference angle
AngleDifferences(ref_angles, gen_angles) ==
    [i \in 1..Len(ref_angles) |-> MinAngleDifference(ref_angles[i], gen_angles)]

\* lines 232-276: the ComparisonResult; its iou_score (line 235) is calculate_iou
\* of the two polygons, which is modelled on its own further down
ComparisonResult(reference, extracted) ==
    [kind |-> "ComparisonResult",
     area_difference |-> Abs(Area(reference) - Area(extracted)),
     perimeter_difference |-> Abs(Length(reference) - Length(extracted)),
     wall_length_differences |->
         WallLengthDifferences(reference.coords, extracted.coords),
     angle_differences |->
         AngleDifferences(TurnAngles(reference.coords), TurnAngles(extracted.coords))]

\* a call of either function on two drawings; the second drawing is one of
\* Drawings turned by quarter turns and written from a shifted start vertex
CmpInit ==
    /\ cmp_op \in {"summary", "detailed"}
    /\ \E ref_base \in 1..Len(Drawings), gen_base \in 1..Len(Drawings),
          quarter_turns \in 0..3, start_shift \in 0..MaxStartShift :
          cmp_input = [reference |-> Drawings[ref_base],
                       generated |-> StartShifted(
                           QuarterTurns(Drawings[gen_base], quarter_turns),
                           IF Drawings[gen_base] = <<>> THEN 0 ELSE start_shift),
                       ref_base |-> ref_base,
                       gen_base |-> gen_base,
                       quarter_turns |-> quarter_turns,
                       start_shift |-> start_shift]
    /\ ref_poly = NonePolygon
    /\ gen_poly = NonePolygon
    /\ alignment = NoAlignment
    /\ cmp_pc = "call"
    /\ cmp_result = NoResult

\* compare_floorplans_detailed lines 222-223: both drawings are loaded
DetailedLoad ==
    /\ cmp_op = "detailed"
    /\ cmp_pc = "call"
    /\ LET ref == load_dxf_polygon(cmp_input.reference)
           gen == load_dxf_polygon(cmp_input.generated)
       IN  IF ref.kind = "ValueError" \/ gen.kind = "ValueError"
           THEN /\ cmp_pc' = "raised"
                /\ cmp_result' = [kind |-> "ValueError", line |-> 80]
                /\ UNCHANGED <<ref_poly, gen_poly>>
           ELSE /\ cmp_pc' = "loaded"
                /\ ref_poly' = ref
                /\ gen_poly' = gen
                /\ UNCHANGED cmp_result
    /\ UNCHANGED <<cmp_op, cmp_input, alignment>>
    /\ UNCHANGED not_cmp_vars

\* compare_floorplans lines 194-195, called as gui_app.py line 98 calls it, with
\* what load_dxf_polygon returned: a Polygon is taken as it is, and None is
\* handed to load_dxf_polygon as a path, which ezdxf.readfile cannot read
SummaryLoad ==
    /\ cmp_op = "summary"
    /\ cmp_pc = "call"
    /\ LET ref == load_dxf_polygon(cmp_input.reference)
           gen == load_dxf_polygon(cmp_input.generated)
       IN  /\ ref.kind # "ValueError"
           /\ gen.kind # "ValueError"
           /\ IF ref.kind = "None" \/ gen.kind = "None"
              THEN /\ cmp_pc' = "raised"
                   /\ cmp_result' = [kind |-> "IOError", line |-> 64]
                   /\ UNCHANGED <<ref_poly, gen_poly>>
              ELSE /\ cmp_pc' = "loaded"
                   /\ ref_poly' = ref
                   /\ gen_poly' = gen
                   /\ UNCHANGED cmp_result
    /\ UNCHANGED <<cmp_op, cmp_input, alignment>>
    /\ UNCHANGED not_cmp_vars

\* lines 198-199 and 226-227: "gen_poly = align_polygons(ref_poly, gen_poly)"
Align ==
    /\ cmp_pc = "loaded"
    /\ \E nan_centroid \in BOOLEAN :
          LET outcome == AlignOutcome(ref_poly, gen_poly, nan_centroid)
          IN  /\ alignment' = outcome.alignment
              /\ IF outcome.error # "none"
                 THEN /\ cmp_pc' = "raised"
                      /\ cmp_result' = [kind |-> outcome.error, line |-> 0]
                      /\ UNCHANGED gen_poly
                 ELSE /\ cmp_pc' = "aligned"
                      /\ gen_poly' = outcome.polygon
                      /\ UNCHANGED cmp_result
    /\ UNCHANGED <<cmp_op, cmp_input, ref_poly>>
    /\ UNCHANGED not_cmp_vars

\* lines 229-230: "if not ref_poly or not gen_poly: raise ValueError(...)"
DetailedCheck ==
    /\ cmp_op = "detailed"
    /\ cmp_pc = "aligned"
    /\ IF Falsy(ref_poly) \/ Falsy(gen_poly)
       THEN /\ cmp_pc' = "raised"
            /\ cmp_result' = [kind |-> "ValueError", line |-> 230]
       ELSE /\ cmp_pc' = "checked"
            /\ UNCHANGED cmp_result
    /\ UNCHANGED <<cmp_op, cmp_input, ref_poly, gen_poly, alignment>>
    /\ UNCHANGED not_cmp_vars

\* lines 232-276: the detailed metrics are computed and returned
DetailedMetrics ==
    /\ cmp_op = "detailed"
    /\ cmp_pc = "checked"
    /\ cmp_pc' = "returned"
    /\ cmp_result' = ComparisonResult(ref_poly, gen_poly)
    /\ UNCHANGED <<cmp_op, cmp_input, ref_poly, gen_poly, alignment>>
    /\ UNCHANGED not_cmp_vars

\* lines 201-218: the summary metrics are computed and returned
SummaryMetrics ==
    /\ cmp_op = "summary"
    /\ cmp_pc = "aligned"
    /\ cmp_pc' = "returned"
    /\ cmp_result' = ComparisonMetrics(ref_poly, gen_poly)
    /\ UNCHANGED <<cmp_op, cmp_input, ref_poly, gen_poly, alignment>>
    /\ UNCHANGED not_cmp_vars

CmpNext ==
    \/ DetailedLoad
    \/ SummaryLoad
    \/ Align
    \/ DetailedCheck
    \/ DetailedMetrics
    \/ SummaryMetrics

InitCmp == CmpInit /\ SegIdle /\ PlanIdle /\ IouIdle /\ WorkersIdle /\ AlignIdle

SpecCmp == InitCmp /\ [][CmpNext]_vars

(***************************************************************************)
(* calculate_iou, dxf_comparison.py lines 183-189, on rectangles with      *)
(* sides along the axes, for which shapely's intersection is the rectangle *)
(* the two have in common and the union covers what either covers.         *)
(***************************************************************************)
\* the least and the greatest coordinate of a ring along an axis
MinCoord(polygon, axis) ==
    CHOOSE v \in {polygon.coords[i][axis] : i \in 1..Len(polygon.coords)} :
        \A i \in 1..Len(polygon.coords) : v <= polygon.coords[i][axis]

MaxCoord(polygon, axis) ==
    CHOOSE v \in {polygon.coords[i][axis] : i \in 1..Len(polygon.coords)} :
        \A i \in 1..Len(polygon.coords) : v >= polygon.coords[i][axis]

Max(a, b) == IF a >= b THEN a ELSE b

Min(a, b) == IF a <= b THEN a ELSE b

\* the rectangle with the corners (x1, y1) and (x2, y2)
GridRectangle(x1, y1, x2, y2) ==
    Polygon(<<<<x1, y1>>, <<x2, y1>>, <<x2, y2>>, <<x1, y2>>>>)

\* poly1.intersection(poly2): empty unless the rectangles share interior
Intersection(a, b) ==
    LET x1 == Max(MinCoord(a, 1), MinCoord(b, 1))
        x2 == Min(MaxCoord(a, 1), MaxCoord(b, 1))
        y1 == Max(MinCoord(a, 2), MinCoord(b, 2))
        y2 == Min(MaxCoord(a, 2), MaxCoord(b, 2))
    IN  IF x1 < x2 /\ y1 < y2 THEN GridRectangle(x1, y1, x2, y2) ELSE Polygon(<<>>)

\* UnionArea with the common part counted twice
UnionAreaDoubleCounted(a, b) == Area(a) + Area(b)

\* poly1.union(poly2).area
UnionArea(a, b) == Area(a) + Area(b) - Area(Intersection(a, b))

\* lines 183-189, the score in 1/IOU_SCALE
calculate_iou(a, b) ==
    IF IsEmpty(a) \/ IsEmpty(b) THEN 0
    ELSE LET intersection == Area(Intersection(a, b))
             union == UnionArea(a, b)
         IN  IF union > 0 THEN (intersection * IOU_SCALE) \div union ELSE 0

\* the arguments: valid rectangles on the grid, and the empty polygon
GridPolygons ==
    {GridRectangle(100 * x1, 100 * y1, 100 * x2, 100 * y2) :
        x1 \in 0..MaxGrid, y1 \in 0..MaxGrid, x2 \in 0..MaxGrid, y2 \in 0..MaxGrid}
    \cup {Polygon(<<>>)}

ValidGridPolygons == {p \in GridPolygons : IsEmpty(p) \/ Area(p) > 0}

IouInit ==
    /\ poly1 \in ValidGridPolygons
    /\ poly2 \in ValidGridPolygons
    /\ iou_pc = "call"
    /\ iou_result = NoResult

\* line 185: "if poly1.is_empty or poly2.is_empty: return 0.0"
IouReturnEmpty ==
    /\ iou_pc = "call"
    /\ IsEmpty(poly1) \/ IsEmpty(poly2)
    /\ iou_pc' = "returned"
    /\ iou_result' = [kind |-> "float", value |-> calculate_iou(poly1, poly2)]
    /\ UNCHANGED <<poly1, poly2>>
    /\ UNCHANGED not_iou_vars

\* lines 187-189: the ratio of the two areas
IouReturnRatio ==
    /\ iou_pc = "call"
    /\ ~(IsEmpty(poly1) \/ IsEmpty(poly2))
    /\ iou_pc' = "returned"
    /\ iou_result' = [kind |-> "float", value |-> calculate_iou(poly1, poly2)]
    /\ UNCHANGED <<poly1, poly2>>
    /\ UNCHANGED not_iou_vars

IouNext ==
    \/ IouReturnEmpty
    \/ IouReturnRatio

InitIou == IouInit /\ SegIdle /\ PlanIdle /\ CmpIdle /\ WorkersIdle /\ AlignIdle

SpecIou == InitIou /\ [][IouNext]_vars

(***************************************************************************)
(* The worker threads of gui_app.py: ProcessingThread.run, lines 24-37,    *)
(* and PcdMergeThread.run, lines 50-57.  Each thread runs its stages in    *)
(* order inside one try block and emits one signal; the threads run at the *)
(* same time and share the process, hence numpy's generator.  A stage is a *)
(* call of a core function, taken here by its outcome: the value returned  *)
(* or the exception raised.                                                *)
(***************************************************************************)
Workers == 1..NumWorkers

NoException == "none"

\* the point cloud files a ProcessingThread is given: one without points
\* and one with points
PointCloudPaths == {"empty.pcd", "scan.pcd"}

\* the file lists a PcdMergeThread is given
PcdFileLists == {<<>>, <<"scan.pcd", "scan.pcd">>}

\* a thread as constructed (lines 19-22 and 44-48) and started
NewWorker(class, argument) ==
    [class |-> class,
     argument |-> argument,
     pc |-> IF class = "ProcessingThread" THEN "load" ELSE "combine",
     calls |-> <<>>,
     value |-> <<>>,
     exception |-> NoException,
     signals |-> <<>>]

NewWorkers ==
    {NewWorker("ProcessingThread", path) : path \in PointCloudPaths}
    \cup {NewWorker("PcdMergeThread", files) : files \in PcdFileLists}

\* AfterStage that goes on to the next stage although the stage raised
AfterStageIgnoringFailure(next, exception) == next

\* where the try block goes after a stage: to the next statement, or to the
\* except clause (lines 36 and 56) when the stage raised
AfterStage(next, exception) == IF exception = NoException THEN next ELSE "except"

\* the thread w after a stage that returned value or raised exception
StageDone(w, stage, next, value, exception) ==
    [workers EXCEPT ![w] =
        [@ EXCEPT !.pc = AfterStage(next, exception),
                  !.calls = Append(@, stage),
                  !.value = IF exception = NoException THEN value ELSE workers[w].value,
                  !.exception = IF exception = NoException
                                THEN workers[w].exception ELSE exception]]

\* line 27: load_and_preprocess_pcd raises ValueError for a file without points
\* (floor_plan_extractor.py lines 36-38)
RunLoad(w) ==
    /\ workers[w].pc = "load"
    /\ workers' = StageDone(w, "load_and_preprocess_pcd", "seed",
                      <<"point_cloud", workers[w].argument>>,
                      IF workers[w].argument = "empty.pcd"
                      THEN "ValueError" ELSE NoException)
    /\ UNCHANGED <<numpy_random_state, events>>
    /\ UNCHANGED not_worker_vars

\* line 30, entering segment_walls: "numpy.random.seed(RANDOM_SEED)"
\* (floor_plan_extractor.py line 61)
SegmentSeed(w) ==
    /\ workers[w].pc = "seed"
    /\ numpy_random_state' = RANDOM_SEED
    /\ workers' = [workers EXCEPT ![w].pc = "segment"]
    /\ UNCHANGED events
    /\ UNCHANGED not_worker_vars

\* line 30, the rest of segment_walls: it returns the wall points or raises
\* RuntimeError (floor_plan_extractor.py lines 62-112)
SegmentWalls(w) ==
    /\ workers[w].pc = "segment"
    /\ \E outcome \in {"returned", "raised"} :
          workers' = StageDone(w, "segment_walls", "plan",
                         <<"points_xy", workers[w].argument>>,
                         IF outcome = "raised" THEN "RuntimeError" ELSE NoException)
    /\ UNCHANGED <<numpy_random_state, events>>
    /\ UNCHANGED not_worker_vars

\* line 33: create_floor_plan raises RuntimeError for no points
\* (floor_plan_extractor.py lines 116-117)
CreateFloorPlan(w) ==
    /\ workers[w].pc = "plan"
    /\ workers' = StageDone(w, "create_floor_plan", "emit",
                      <<workers[w].value, <<"polygon", workers[w].argument>>>>,
                      IF workers[w].value = <<>> THEN "RuntimeError" ELSE NoException)
    /\ UNCHANGED <<numpy_random_state, events>>
    /\ UNCHANGED not_worker_vars

\* line 53: combine_pcd_files raises ValueError for an empty list
\* (combine_pcd_frames.py lines 48-49)
MergeCombine(w) ==
    /\ workers[w].pc = "combine"
    /\ workers' = StageDone(w, "combine_pcd_files", "save",
                      <<"combined_pcd", workers[w].argument>>,
                      IF workers[w].argument = <<>> THEN "ValueError" ELSE NoException)
    /\ UNCHANGED <<numpy_random_state, events>>
    /\ UNCHANGED not_worker_vars

\* line 54: save_combined_pcd
MergeSave(w) ==
    /\ workers[w].pc = "save"
    /\ workers' = StageDone(w, "save_combined_pcd", "emit",
                      <<"output_path", workers[w].argument>>, NoException)
    /\ UNCHANGED <<numpy_random_state, events>>
    /\ UNCHANGED not_worker_vars

\* lines 35 and 55: "self.finished.emit(...)"
EmitFinished(w) ==
    /\ workers[w].pc = "emit"
    /\ workers' = [workers EXCEPT ![w] =
          [@ EXCEPT !.pc = "done",
                    !.signals = Append(@, [signal |-> "finished",
                                           payload |-> workers[w].value])]]
    /\ events' = Append(events, [thread |-> w, signal |-> "finished"])
    /\ UNCHANGED numpy_random_state
    /\ UNCHANGED not_worker_vars

\* lines 36-37 and 56-57: "except Exception as e: self.error.emit(str(e))"
EmitError(w) ==
    /\ workers[w].pc = "except"
    /\ workers' = [workers EXCEPT ![w] =
          [@ EXCEPT !.pc = "done",
                    !.signals = Append(@, [signal |-> "error",
                                           payload |-> workers[w].exception])]]
    /\ events' = Append(events, [thread |-> w, signal |-> "error"])
    /\ UNCHANGED numpy_random_state
    /\ UNCHANGED not_worker_vars

WorkersInit ==
    /\ workers \in [Workers -> NewWorkers]
    /\ numpy_random_state = Entropy
    /\ events = <<>>
    /\ app = [NewApp EXCEPT !.state = "none"]

WorkersNext ==
    \/ \E w \in Workers : RunLoad(w)
    \/ \E w \in Workers : SegmentSeed(w)
    \/ \E w \in Workers : SegmentWalls(w)
    \/ \E w \in Workers : CreateFloorPlan(w)
    \/ \E w \in Workers : MergeCombine(w)
    \/ \E w \in Workers : MergeSave(w)
    \/ \E w \in Workers : EmitFinished(w)
    \/ \E w \in Workers : EmitError(w)

InitWorkers == WorkersInit /\ SegIdle /\ PlanIdle /\ CmpIdle /\ IouIdle /\ AlignIdle

SpecWorkers == InitWorkers /\ [][WorkersNext]_vars

(***************************************************************************)
(* FloorPlanApp, gui_app.py lines 114-297.  The handlers run one at a time *)
(* in the thread of the application; a signal emitted by a worker thread   *)
(* is queued for that thread and handled in the order of emission.  The    *)
(* load button is never disabled, so a run can be started while an earlier *)
(* one is running.                                                         *)
(***************************************************************************)
\* the files the user picks in the dialog of loadPointCloudData
ScanPaths == PointCloudPaths \cup {"scan2.pcd"}

\* the output file the user names in the dialog of mergePcdFrames
MergedPath == "merged.pcd"

\* the attribute refers to a thread whose run() has not returned
StillRunning(thread) == thread # Unbound /\ workers[thread].pc # "done"

\* the thread object is started and bound to the attribute.  The object the
\* attribute referred to loses its last reference; if its thread is still
\* running, Qt either ends the process ("QThread: Destroyed while thread
\* is still running") or the thread runs on, depending on the build.
StartThread(attribute, class, argument, point_cloud_path) ==
    /\ app.state = "running"
    /\ Len(workers) < MaxThreads
    /\ \E process_ends \in {FALSE, StillRunning(app[attribute])} :
          IF process_ends
          THEN /\ app' = [app EXCEPT !.state = "ended",
                                     !.point_cloud_path = point_cloud_path]
               /\ workers' = <<>>
               /\ events' = <<>>
          ELSE /\ app' = [app EXCEPT ![attribute] = Len(workers) + 1,
                                     !.point_cloud_path = point_cloud_path]
               /\ workers' = Append(workers, NewWorker(class, argument))
               /\ UNCHANGED events

\* loadPointCloudData, lines 264-275, with startProcessing, lines 277-282
LoadPointCloudData ==
    /\ \E fileName \in ScanPaths :
          StartThread("processing_thread", "ProcessingThread", fileName, fileName)
    /\ UNCHANGED numpy_random_state
    /\ UNCHANGED not_app_vars

\* mergePcdFrames, lines 216-246, the user having picked files and an output
MergePcdFrames ==
    /\ \E pcd_files \in PcdFileLists \ {<<>>} :
          StartThread("pcd_merge_thread", "PcdMergeThread", pcd_files,
                      app.point_cloud_path)
    /\ UNCHANGED numpy_random_state
    /\ UNCHANGED not_app_vars

\* the oldest signal waiting is the given signal of a thread of the class
NextEvent(class, signal) ==
    /\ app.state = "running"
    /\ events # <<>>
    /\ workers[Head(events).thread].class = class
    /\ Head(events).signal = signal

\* onProcessingComplete, lines 287-293
OnProcessingComplete ==
    /\ NextEvent("ProcessingThread", "finished")
    /\ \E result \in {workers[Head(events).thread].signals[1].payload} :
          app' = [app EXCEPT !.points_xy = result[1],
                             !.polygon = result[2],
                             !.exportBtn = TRUE,
                             !.compareBtn = TRUE]
    /\ events' = Tail(events)
    /\ UNCHANGED <<workers, numpy_random_state>>
    /\ UNCHANGED not_app_vars

\* onProcessingError, lines 295-297, connected to the error signal of both
\* thread classes (lines 244 and 281)
OnProcessingError ==
    /\ app.state = "running"
    /\ events # <<>>
    /\ Head(events).signal = "error"
    /\ events' = Tail(events)
    /\ UNCHANGED <<workers, numpy_random_state, app>>
    /\ UNCHANGED not_app_vars

\* onPcdMergeComplete, lines 248-262: the user answers No, or Yes and the
\* merged file is processed (lines 260-262 with startProcessing)
OnPcdMergeComplete ==
    /\ NextEvent("PcdMergeThread", "finished")
    /\ events' = Tail(events)
    /\ \E reply \in {"No"} \cup {yes \in {"Yes"} : Len(workers) < MaxThreads} :
       \E process_ends \in {FALSE, reply = "Yes" /\ StillRunning(app.processing_thread)} :
          IF reply = "No"
          THEN /\ app' = [app EXCEPT !.merged_pcd_path = MergedPath]
               /\ UNCHANGED workers
          ELSE IF process_ends
          THEN /\ app' = [app EXCEPT !.state = "ended",
                                     !.merged_pcd_path = MergedPath,
                                     !.point_cloud_path = MergedPath]
               /\ workers' = <<>>
          ELSE /\ app' = [app EXCEPT !.merged_pcd_path = MergedPath,
                                     !.point_cloud_path = MergedPath,
                                     !.processing_thread = Len(workers) + 1]
               /\ workers' = Append(workers, NewWorker("ProcessingThread", MergedPath))
    /\ UNCHANGED numpy_random_state
    /\ UNCHANGED not_app_vars

AppInit ==
    /\ workers = <<>>
    /\ numpy_random_state = Entropy
    /\ events = <<>>
    /\ app = NewApp

AppNext ==
    \/ LoadPointCloudData
    \/ MergePcdFrames
    \/ OnProcessingComplete
    \/ OnProcessingError
    \/ OnPcdMergeComplete
    \/ \E w \in DOMAIN workers : RunLoad(w)
    \/ \E w \in DOMAIN workers : SegmentSeed(w)
    \/ \E w \in DOMAIN workers : SegmentWalls(w)
    \/ \E w \in DOMAIN workers : CreateFloorPlan(w)
    \/ \E w \in DOMAIN workers : MergeCombine(w)
    \/ \E w \in DOMAIN workers : MergeSave(w)
    \/ \E w \in DOMAIN workers : EmitFinished(w)
    \/ \E w \in DOMAIN workers : EmitError(w)

InitApp == AppInit /\ SegIdle /\ PlanIdle /\ CmpIdle /\ IouIdle /\ AlignIdle

SpecApp == InitApp /\ [][AppNext]_vars

(***************************************************************************)
(* align_polygons, dxf_comparison.py lines 126-181, on polygon objects.    *)
(* A Python name holds a reference to an object; objects is the store of   *)
(* the polygon objects and a reference is a position in it.  A function    *)
(* that builds a polygon adds an object; one that returns its argument     *)
(* returns the same reference.                                             *)
(***************************************************************************)
\* "Polygon(...)": a new object; the store with it and the reference to it
NewPolygon(store, polygon) == <<Append(store, polygon), Len(store) + 1>>

\* lines 158-176: "if angle == 0: return polygon", else a new Polygon
RotateObject(store, reference, angle) ==
    IF angle = 0 THEN <<store, reference>>
    ELSE NewPolygon(store, rotate_polygon(store[reference], angle))

\* TranslateObject that moves the vertices of the object it is given
TranslateObjectInPlace(store, reference, dx, dy) ==
    <<[store EXCEPT ![reference] = translate_polygon(store[reference], dx, dy)],
      reference>>

\* lines 178-181: a new Polygon of the moved vertices
TranslateObject(store, reference, dx, dy) ==
    NewPolygon(store, translate_polygon(store[reference], dx, dy))

\* the calls align_polygons(reference_polygon, extracted_polygon) on two
\* polygons with vertices, each an object of its own
AlignInit ==
    /\ \E ref_base \in 1..Len(Drawings), gen_base \in 1..Len(Drawings),
          quarter_turns \in 0..3, start_shift \in 0..MaxStartShift :
          /\ align_frame =
                [NoFrame EXCEPT
                   !.pc = "call",
                   !.input = [reference |-> Drawings[ref_base],
                              generated |-> StartShifted(
                                  QuarterTurns(Drawings[gen_base], quarter_turns),
                                  IF Drawings[gen_base] = <<>> THEN 0 ELSE start_shift),
                              ref_base |-> ref_base,
                              gen_base |-> gen_base,
                              quarter_turns |-> quarter_turns,
                              start_shift |-> start_shift],
                   !.reference_polygon = 1,
                   !.extracted_polygon = 2]
          /\ objects = <<load_dxf_polygon(align_frame.input.reference),
                         load_dxf_polygon(align_frame.input.generated)>>
    /\ \A i \in 1..2 : objects[i].kind = "Polygon" /\ ~IsEmpty(objects[i])

\* lines 135-149: the rotation angle and
\* "rotated_polygon = rotate_polygon(extracted_polygon, rotation_angle)"
AlignRotate ==
    /\ align_frame.pc = "call"
    /\ \E angle \in {RotationAngle(objects[align_frame.reference_polygon],
                                    objects[align_frame.extracted_polygon])} :
       \E rotated \in {RotateObject(objects, align_frame.extracted_polygon, angle)} :
          /\ objects' = rotated[1]
          /\ align_frame' = [align_frame EXCEPT !.pc = "rotated",
                                                !.rotated_polygon = rotated[2]]
    /\ UNCHANGED not_align_vars

\* lines 151-156: the offsets and
\* "aligned_polygon = translate_polygon(rotated_polygon, dx, dy)"
AlignTranslate ==
    /\ align_frame.pc = "rotated"
    /\ \E t \in {Translation(objects[align_frame.reference_polygon],
                              objects[align_frame.rotated_polygon])} :
       \E aligned \in {TranslateObject(objects, align_frame.rotated_polygon, t[1], t[2])} :
          /\ objects' = aligned[1]
          /\ align_frame' = [align_frame EXCEPT !.pc = "returned",
                                                !.aligned_polygon = aligned[2]]
    /\ UNCHANGED not_align_vars

AlignNext ==
    \/ AlignRotate
    \/ AlignTranslate

InitAlign == AlignInit /\ SegIdle /\ PlanIdle /\ CmpIdle /\ IouIdle /\ WorkersIdle

SpecAlign == InitAlign /\ [][AlignNext]_vars

(***************************************************************************)
(* Properties of segment_walls.                                            *)
(***************************************************************************)
PatchSet(cloud) == {cloud[i] : i \in 1..Len(cloud)}

SegDone == seg_pc \in {"returned", "raised"}

\* an upper bound on the steps segment_walls has left: the rounds not yet
\* begun at NUM_THRESHOLDS + 3 steps each, the rest of the current round,
\* the end of the loop and the return
SegMeasure ==
    LET later == (MAX_ROUNDS - round) * (NUM_THRESHOLDS + 3) + 2
    IN  CASE seg_pc = "loop" -> later
          [] seg_pc = "fit" -> (NUM_THRESHOLDS - threshold) + 2 + later
          [] seg_pc = "evaluate" -> 1 + later
          [] seg_pc = "finish" -> 1
          [] OTHER -> 0

\* C1: segment_walls terminates after at most 5 rounds: every step uses up the
\* step budget of 5 rounds; a round that found inliers removes all of them from
\* the remaining cloud, accepted or not, so the cloud strictly shrinks; and the
\* loop ends only when the cloud is empty, no inliers were found, or 5 rounds
\* have run.
C1_TerminatesWithinRounds ==
    [][/\ round' <= MAX_ROUNDS
       /\ SegMeasure' < SegMeasure
       /\ SegMeasure' >= 0
       /\ (seg_pc = "evaluate" /\ seg_pc' = "loop") =>
            /\ PatchSet(remaining_cloud') =
                 PatchSet(remaining_cloud) \ {remaining_cloud[i] : i \in best_inliers}
            /\ NumPoints(remaining_cloud') < NumPoints(remaining_cloud)
       /\ seg_pc' = "finish" =>
            \/ Len(remaining_cloud') = 0
            \/ best_inliers' = {}
            \/ round' = MAX_ROUNDS]_vars

\* C1 witness: five rounds ran, each rejected its plane and still removed its
\* inliers, and the round budget ended the loop with points left over
C1_Witness ==
    /\ seg_pc = "finish"
    /\ round = MAX_ROUNDS
    /\ walls = <<>>
    /\ Len(remaining_cloud) > 0
    /\ Len(remaining_cloud) < NumPatches

\* C2: segment_walls raises the no-walls error exactly when no wall was
\* accepted; when it returns, at least one wall was accepted and the index
\* groups and the plane models have one entry per accepted wall.
C2_NoWallsErrorIffNoneAccepted ==
    /\ seg_pc = "raised" =>
          /\ walls = <<>>
          /\ seg_result.kind = "RuntimeError"
    /\ seg_pc = "returned" =>
          /\ Len(walls) >= 1
          /\ seg_result.kind = "tuple"
          /\ Len(seg_result.walls_indices) = Len(walls)
          /\ Len(seg_result.wall_models) = Len(walls)

\* C2 witness: a call that returned two accepted walls
C2_Witness ==
    /\ seg_pc = "returned"
    /\ Len(seg_result.walls_indices) = 2
    /\ Len(seg_result.wall_models) = 2

(***************************************************************************)
(* Properties of create_floor_plan.                                        *)
(***************************************************************************)
\* C8: create_floor_plan fails with the insufficient-geometry error for every
\* input of fewer than 3 points and returns nothing for it.
C8_FewPointsRejected ==
    (plan_pc \in {"returned", "raised"} /\ Len(points_xy) < 3) =>
        (plan_pc = "raised" /\ plan_result.kind = "RuntimeError")

(***************************************************************************)
(* Properties of the alignment and the comparison.                         *)
(***************************************************************************)
\* the polygons the two drawings of the call load as
ReferenceDrawing == load_dxf_polygon(cmp_input.reference)

CandidateDrawing == load_dxf_polygon(cmp_input.generated)

\* a drawing that gives no polygon, an empty one, or one of fewer than 3 edges
InvalidDrawing(polygon) == polygon.kind # "Polygon" \/ IsEmpty(polygon)

BothDrawingsValid ==
    ~InvalidDrawing(ReferenceDrawing) /\ ~InvalidDrawing(CandidateDrawing)

\* align_polygons has returned
Aligned == cmp_pc \in {"aligned", "checked", "returned"}

\* C3: compare_floorplans_detailed and compare_floorplans reject a null, empty
\* or fewer-than-3-edge polygon with the invalid-polygon failure before any
\* alignment is performed on it, and return no metrics for it.
C3_InvalidPolygonRejectedFirst ==
    (cmp_pc # "idle" /\ ~BothDrawingsValid) =>
        /\ ~alignment.entered
        /\ cmp_pc # "returned"
        /\ cmp_pc = "raised" => cmp_result.kind = "ValueError"

\* C4: compare_floorplans_detailed records one pair per reference edge, the
\* reference edge's length with the length of a candidate edge whose absolute
\* length difference to it is least among all candidate edges.
C4_NearestWallRecorded ==
    (cmp_op = "detailed" /\ cmp_pc = "returned") =>
        LET pairs == cmp_result.wall_length_differences
            ref_coords == ref_poly.coords
            gen_coords == gen_poly.coords
        IN  /\ Len(pairs) = NumEdges(ref_coords)
            /\ \A i \in 1..Len(pairs) :
                  /\ pairs[i][1] = EdgeLength(ref_coords, i)
                  /\ \E j \in 1..NumEdges(gen_coords) :
                        pairs[i][2] = EdgeLength(gen_coords, j)
                  /\ \A j \in 1..NumEdges(gen_coords) :
                        Abs(pairs[i][1] - pairs[i][2])
                          <= Abs(pairs[i][1] - EdgeLength(gen_coords, j))

\* C5: detect_principal_axes returns the same bin for a polygon and for that
\* polygon turned by a multiple of a quarter turn, whichever vertex the ring
\* is written from.
C5_AxisSameUnderQuarterTurns ==
    (alignment.entered /\ BothDrawingsValid
       /\ cmp_input.ref_base = cmp_input.gen_base) =>
        alignment.ext_angle = alignment.ref_angle

\* C6: detect_principal_axes returns an angle in [0, pi/2), and 0 when no edge
\* is at least the minimum length.
C6_AxisInFirstQuadrant ==
    (alignment.entered /\ BothDrawingsValid) =>
        /\ 0 <= alignment.ref_angle /\ alignment.ref_angle < HALF_PI
        /\ 0 <= alignment.ext_angle /\ alignment.ext_angle < HALF_PI
        /\ \A i \in 1..NumEdges(CandidateDrawing.coords) :
              EdgeLengthSq(CandidateDrawing.coords, i) < MIN_EDGE_LENGTH_SQ
           => alignment.ext_angle = 0

\* the edges of at least the minimum length, counted from the lengths
LongEdges(polygon) ==
    {i \in 1..NumEdges(polygon.coords) :
        EdgeLengthSq(polygon.coords, i) >= MIN_EDGE_LENGTH_SQ}

\* gen_poly is the candidate drawing moved by the translation, vertex by vertex
PureTranslation ==
    /\ Len(gen_poly.coords) = Len(CandidateDrawing.coords)
    /\ \A i \in 1..Len(gen_poly.coords) :
          gen_poly.coords[i] =
              <<CandidateDrawing.coords[i][1] + alignment.translation[1],
                CandidateDrawing.coords[i][2] + alignment.translation[2]>>

\* C7 as stated: when the reference or the candidate has fewer than 2 edges of
\* at least the minimum length, align_polygons uses rotation angle 0 and the
\* aligned polygon is a pure translation of the candidate.
C7_FewEdgesNoRotation ==
    (Aligned /\ BothDrawingsValid
       /\ (Cardinality(LongEdges(ReferenceDrawing)) < 2
             \/ Cardinality(LongEdges(CandidateDrawing)) < 2)) =>
        (alignment.rotation_angle = 0 /\ PureTranslation)

\* C7 amended: when neither the reference nor the candidate has any edge of at
\* least the minimum length, align_polygons uses rotation angle 0 and the
\* aligned polygon is a pure translation of the candidate.
C7_NoEdgesNoRotation ==
    (Aligned /\ BothDrawingsValid
       /\ LongEdges(ReferenceDrawing) = {}
       /\ LongEdges(CandidateDrawing) = {}) =>
        (alignment.rotation_angle = 0 /\ PureTranslation)

\* C7 witness: two differently turned polygons without a long edge were
\* aligned, and the candidate was moved
C7_Witness ==
    /\ cmp_pc = "aligned"
    /\ BothDrawingsValid
    /\ LongEdges(ReferenceDrawing) = {}
    /\ LongEdges(CandidateDrawing) = {}
    /\ cmp_input.ref_base # cmp_input.gen_base
    /\ alignment.translation # <<0, 0>>
    /\ gen_poly # CandidateDrawing

\* C9: for the 10 x 5 rectangle and the same rectangle turned by 30 degrees
\* (0.5236 rad) and moved by (3, 3), whichever vertex the candidate ring starts
\* at, the detected axes differ by the applied rotation modulo a quarter turn
\* within the bin tolerance, the aligned candidate's area and perimeter match
\* the reference within 1 percent, and the similarity score is at least 99.
C9_TurnedRectangleRecovered ==
    (Aligned /\ cmp_input.ref_base = 1 /\ cmp_input.gen_base = 2
       /\ cmp_input.quarter_turns = 0) =>
        /\ Abs(((alignment.ext_angle - alignment.ref_angle) % HALF_PI) - 5236)
             <= AXIS_ALIGNMENT_TOLERANCE
        /\ 100 * Abs(Area(gen_poly) - Area(ref_poly)) <= Area(ref_poly)
        /\ 100 * Abs(Length(gen_poly) - Length(ref_poly)) <= Length(ref_poly)
        /\ (cmp_op = "summary" /\ cmp_pc = "returned") =>
              cmp_result.similarity_score >= 990

\* C10: aligning a valid polygon with itself gives rotation angle 0,
\* translation (0, 0) and an aligned polygon with the same vertices.
C10_AlignWithItself ==
    (Aligned /\ BothDrawingsValid /\ cmp_input.generated = cmp_input.reference) =>
        /\ alignment.rotation_angle = 0
        /\ alignment.translation = <<0, 0>>
        /\ gen_poly.coords = ref_poly.coords

\* C10 witness: a polygon whose axis is not 0 was aligned with itself
C10_Witness ==
    /\ cmp_pc = "aligned"
    /\ BothDrawingsValid
    /\ cmp_input.generated = cmp_input.reference
    /\ alignment.ref_angle # 0
    /\ gen_poly.coords = ref_poly.coords

\* the ring turned about the point c by angle, vertex by vertex
TurnedRing(coords, c, angle) ==
    [i \in 1..Len(coords) |->
        IF angle = 0 THEN coords[i] ELSE RotatePoint(coords[i], c, angle)]

\* C11: the polygon align_polygons returns is the candidate rotated about its
\* own centroid by the reference axis minus the candidate axis and then moved
\* by the reference centroid minus the rotated candidate's centroid, and its
\* centroid is the reference centroid.
C11_AlignedIsRotatedThenTranslated ==
    (cmp_pc = "aligned" /\ BothDrawingsValid) =>
        \A candidate \in {CandidateDrawing} :
        \A angle \in {detect_principal_axes(ref_poly) - detect_principal_axes(candidate)} :
        \A own_centroid \in {Centroid(candidate)} :
        \A turned \in {Polygon(TurnedRing(candidate.coords, own_centroid, angle))} :
        \A turned_centroid \in {Centroid(turned)}, ref_centroid \in {Centroid(ref_poly)} :
            /\ alignment.rotation_angle = angle
            /\ alignment.translation = <<ref_centroid[1] - turned_centroid[1],
                                         ref_centroid[2] - turned_centroid[2]>>
            /\ Len(gen_poly.coords) = Len(turned.coords)
            /\ \A i \in 1..Len(gen_poly.coords) :
                  gen_poly.coords[i] =
                      <<turned.coords[i][1] + alignment.translation[1],
                        turned.coords[i][2] + alignment.translation[2]>>
            /\ Centroid(gen_poly) = ref_centroid

\* C11 witness: a candidate was both rotated and moved onto another drawing
C11_Witness ==
    /\ cmp_pc = "aligned"
    /\ BothDrawingsValid
    /\ alignment.rotation_angle # 0
    /\ alignment.translation[1] # 0
    /\ alignment.translation[2] # 0
    /\ Centroid(gen_poly) = Centroid(ref_poly)
    /\ Centroid(CandidateDrawing) # Centroid(ref_poly)

\* compare_floorplans has returned its metrics
SummaryReturned == cmp_op = "summary" /\ cmp_pc = "returned"

\* |reference - candidate| / reference * 100 in tenths of a percent, 0 for a
\* reference value of 0
PercentOf(reference_value, candidate_value) ==
    IF reference_value = 0 THEN 0
    ELSE (Abs(reference_value - candidate_value) * 1000) \div reference_value

\* C12: compare_floorplans computes the similarity score as 100 minus the mean
\* of the area and perimeter percent differences, each |reference - candidate|
\* / reference * 100, or 0 for a reference value of 0; the score is not
\* clamped: it never exceeds 100 and is negative when the mean exceeds 100.
C12_SimilarityScoreUnclamped ==
    SummaryReturned =>
        \A m \in {cmp_result} :
        \A mean \in {(m.area_difference_percent
                         + m.perimeter_difference_percent) \div 2} :
            /\ m.area_reference = Area(ref_poly)
            /\ m.perimeter_reference = Length(ref_poly)
            /\ m.area_extracted # NaN =>
                  /\ m.area_extracted = Area(gen_poly)
                  /\ m.area_difference_percent =
                        PercentOf(m.area_reference, m.area_extracted)
            /\ m.perimeter_extracted # NaN =>
                  /\ m.perimeter_extracted = Length(gen_poly)
                  /\ m.perimeter_difference_percent =
                        PercentOf(m.perimeter_reference, m.perimeter_extracted)
            /\ m.area_difference_percent >= 0
            /\ m.perimeter_difference_percent >= 0
            /\ m.similarity_score = 1000 - mean
            /\ m.similarity_score <= 1000
            /\ mean > 1000 => m.similarity_score < 0

\* C12 witness: a candidate far larger than the reference got a negative score
C12_Witness ==
    /\ SummaryReturned
    /\ BothDrawingsValid
    /\ cmp_result.area_reference > 0
    /\ cmp_result.area_extracted > 2 * cmp_result.area_reference
    /\ cmp_result.similarity_score < 0

\* compare_floorplans_detailed has returned its result
DetailedReturned == cmp_op = "detailed" /\ cmp_pc = "returned"

\* the turn at vertex k of a closed ring of n vertices, the closing vertex
\* (k = 1) included
TurnAtVertex(coords, k) ==
    LET n == Len(coords) - 1
        before == coords[((k + n - 2) % n) + 1]
        at == coords[k]
        after == coords[(k % n) + 1]
    IN  TurnBetween(at[1] - before[1], at[2] - before[2],
                    after[1] - at[1], after[2] - at[2])

\* the turns at all vertices of the ring, as a set
AllTurns(coords) == {TurnAtVertex(coords, k) : k \in 1..(Len(coords) - 1)}

\* C13: compare_floorplans_detailed computes a turn angle at every vertex of
\* both rings, the vertex where the ring closes included, so the list of angle
\* differences has one entry per reference vertex, each the least absolute
\* difference between a reference turn and any candidate turn.
C13_AngleAtEveryVertex ==
    DetailedReturned =>
        \A differences \in {cmp_result.angle_differences} :
        \A ref_turns \in {AllTurns(ref_poly.coords)},
           gen_turns \in {AllTurns(gen_poly.coords)} :
            /\ Len(differences) = Len(ref_poly.coords) - 1
            /\ \A i \in 1..Len(differences) :
                  /\ \E r \in ref_turns, g \in gen_turns : differences[i] = Abs(r - g)
                  /\ \E r \in ref_turns :
                        \A g \in gen_turns : differences[i] <= Abs(r - g)

(***************************************************************************)
(* Properties of calculate_iou.                                            *)
(***************************************************************************)
\* the unit cells of the grid a polygon covers
Cells(polygon) ==
    IF IsEmpty(polygon) THEN {}
    ELSE {<<i, j>> \in (0..MaxGrid) \X (0..MaxGrid) :
            /\ MinCoord(polygon, 1) <= 100 * i /\ 100 * (i + 1) <= MaxCoord(polygon, 1)
            /\ MinCoord(polygon, 2) <= 100 * j /\ 100 * (j + 1) <= MaxCoord(polygon, 2)}

C15_SameOutputOnSameInput ==
    (seg_pc \in {"returned", "raised"} /\ earlier_result # NoResult) =>
        seg_result = earlier_result

(***************************************************************************)
(* Properties of the worker threads.                                       *)
(***************************************************************************)
\* C16: core operations running at the same time on worker threads do not
\* interfere: no step of one writes process-wide state or the state of
\* another thread, so each thread's result is what it would be alone.
C16_NoProcessWideWrites ==
    [][/\ numpy_random_state' = numpy_random_state
       /\ \A w \in Workers :
             workers'[w] # workers[w] =>
                 \A other \in Workers \ {w} : workers'[other] = workers[other]]_vars

\* the stages of ProcessingThread.run in the order of lines 27, 30 and 33
PipelineStages == <<"load_and_preprocess_pcd", "segment_walls", "create_floor_plan">>

\* the signals of the given name among those the thread emitted
Emitted(worker, name) == {i \in 1..Len(worker.signals) : worker.signals[i].signal = name}

\* C17: a run of the pipeline (load, segment, build the floor plan) ends with
\* exactly one outcome: the complete result (wall points and polygon) is
\* delivered once after all three stages ran once each, or one failure is
\* reported; a run that failed delivers no result, and the stage that failed
\* is the last one called.
C17_ExactlyOneOutcome ==
    \A w \in Workers : \A run \in {workers[w]} :
        run.class = "ProcessingThread" =>
            /\ Len(run.signals) <= 1
            /\ Len(run.signals) = 1 <=> run.pc = "done"
            /\ Len(run.calls) <= Len(PipelineStages)
            /\ \A i \in 1..Len(run.calls) : run.calls[i] = PipelineStages[i]
            /\ Emitted(run, "finished") # {} =>
                  /\ run.exception = NoException
                  /\ run.calls = PipelineStages
                  /\ run.signals[1].payload =
                        <<<<"points_xy", run.argument>>, <<"polygon", run.argument>>>>
            /\ run.exception # NoException =>
                  /\ Emitted(run, "finished") = {}
                  /\ run.pc \in {"except", "done"}
                  /\ run.pc = "done" => run.signals = <<[signal |-> "error", payload |-> run.exception]>>

\* one run has delivered its result while another, which failed in
\* segment_walls, has reported its failure
C17_Witness ==
    \E w, v \in Workers :
        /\ workers[w].class = "ProcessingThread"
        /\ workers[w].pc = "done"
        /\ Emitted(workers[w], "finished") # {}
        /\ workers[v].class = "ProcessingThread"
        /\ workers[v].pc = "done"
        /\ workers[v].exception = "RuntimeError"
        /\ Emitted(workers[v], "error") # {}

(***************************************************************************)
(* Properties of align_polygons on polygon objects.                        *)
(***************************************************************************)
\* C18: align_polygons never changes its arguments: during the call and after
\* it returned, the reference object and the candidate object have the
\* vertices they were passed with, whatever the rotation angle, 0 included.
C18_ArgumentsNotMutated ==
    align_frame.pc # "idle" =>
        /\ objects[align_frame.reference_polygon] =
              load_dxf_polygon(align_frame.input.reference)
        /\ objects[align_frame.extracted_polygon] =
              load_dxf_polygon(align_frame.input.generated)

\* a call returned in which the rotation was by 0, so that rotate_polygon
\* returned the candidate itself, and the translation moved the vertices
C18_Witness ==
    /\ align_frame.pc = "returned"
    /\ align_frame.rotated_polygon = align_frame.extracted_polygon
    /\ objects[align_frame.aligned_polygon] # objects[align_frame.extracted_polygon]

(***************************************************************************)
(* Properties of the threshold loop of segment_walls.                      *)
(***************************************************************************)
\* len(inliers) of a recorded fit
FitCount(fit) == InlierCount(fit.cloud, fit.inliers)

\* the first threshold whose fit has the most inliers
EarliestLargest(round_fits) ==
    CHOOSE k \in 1..Len(round_fits) :
        /\ \A i \in 1..Len(round_fits) : FitCount(round_fits[i]) <= FitCount(round_fits[k])
        /\ \A i \in 1..(k - 1) : FitCount(round_fits[i]) < FitCount(round_fits[k])

\* C19: in each round segment_plane is run once for every distance threshold
\* on the same remaining cloud, and the (model, inliers) pair kept has at
\* least as many inliers as every threshold's fit; among the thresholds with
\* the most inliers the pair of the earliest is kept.
C19_LargestFitKeptEarliestOnTies ==
    (fits.recording /\ seg_pc \in {"fit", "evaluate"}) =>
        /\ Len(fits.round) = threshold
        /\ seg_pc = "evaluate" => Len(fits.round) = NUM_THRESHOLDS
        /\ \A i \in 1..Len(fits.round) :
              /\ fits.round[i].cloud = remaining_cloud
              /\ FitCount(fits.round[i]) <= InlierCount(remaining_cloud, best_inliers)
        /\ (fits.round # <<>> /\ best_inliers # {}) =>
              \A k \in {EarliestLargest(fits.round)} :
                  /\ best_inliers = fits.round[k].inliers
                  /\ best_model = fits.round[k].model

\* all thresholds were tried, two of them gave different fits of the same,
\* largest inlier count, and a third gave a smaller fit
C19_Witness ==
    /\ fits.recording
    /\ seg_pc = "evaluate"
    /\ \E i, j, k \in 1..Len(fits.round) :
          /\ i < j
          /\ FitCount(fits.round[i]) = FitCount(fits.round[j])
          /\ fits.round[i].model # fits.round[j].model
          /\ FitCount(fits.round[k]) < FitCount(fits.round[i])
          /\ FitCount(fits.round[k]) > 0
          /\ \A l \in 1..Len(fits.round) : FitCount(fits.round[l]) <= FitCount(fits.round[i])

(***************************************************************************)
(* Properties of the verticality test of segment_walls.                    *)
(***************************************************************************)
\* C20: every wall segment accepted by segment_walls comes from a plane whose
\* normal has |c| below NORMAL_TOLERANCE, and a round whose best plane has
\* |c| at or above the tolerance adds no wall segment.
C20_OnlyVerticalPlanesAccepted ==
    [][/\ \A i \in 1..Len(walls') : Abs(walls'[i].model.c) < NORMAL_TOLERANCE
       /\ (seg_pc = "evaluate" /\ seg_pc' = "loop"
             /\ Abs(best_model.c) >= NORMAL_TOLERANCE) => walls' = walls
       /\ Len(walls') > Len(walls) =>
             /\ seg_pc = "evaluate"
             /\ walls' = Append(walls, walls'[Len(walls')])
             /\ walls'[Len(walls')].model = best_model]_vars

\* after a round that accepted a wall, a round whose best plane has |c|
\* equal to the tolerance has been evaluated and added nothing
C20_Witness ==
    /\ seg_pc = "loop"
    /\ round = 2
    /\ Len(walls) = 1
    /\ Abs(best_model.c) = NORMAL_TOLERANCE
    /\ Len(remaining_cloud) < NumPatches - 1

(***************************************************************************)
(* Properties of the clustering and the length test of segment_walls.      *)
(***************************************************************************)
\* the points of a cloud that cluster_dbscan gave the label
ClusterMembers(cloud, labels, label) ==
    {cloud[i] : i \in {j \in 1..Len(cloud) : labels[j] = label}}

\* the labels of the clusters, noise left out
ClusterLabels(labels) == {labels[i] : i \in 1..Len(labels)} \ {-1}

\* a round is evaluated in this step
RoundEvaluated == seg_pc = "evaluate" /\ seg_pc' = "loop"

\* C21: the points of a wall segment are exactly the members of the cluster
\* with the most members among the non-noise clusters of the round's inliers,
\* the first of them if several have the most: noise points and the points of
\* the other clusters are left out, and a round whose inliers are all noise
\* adds no segment.
C21_WallIsLargestCluster ==
    [][RoundEvaluated =>
         \A wall_cloud \in {select_by_index(remaining_cloud, best_inliers, FALSE)} :
         \A labels \in {cluster_dbscan(wall_cloud)} :
             /\ ClusterLabels(labels) = {} => walls' = walls
             /\ Len(walls') > Len(walls) =>
                   \E l \in ClusterLabels(labels) :
                       /\ walls'[Len(walls')].points = ClusterMembers(wall_cloud, labels, l)
                       /\ \A k \in ClusterLabels(labels) :
                             /\ LabelCount(wall_cloud, labels, k) <= LabelCount(wall_cloud, labels, l)
                             /\ k < l => LabelCount(wall_cloud, labels, k) < LabelCount(wall_cloud, labels, l)
                       /\ \A i \in 1..Len(wall_cloud) :
                             labels[i] # l => wall_cloud[i] \notin walls'[Len(walls')].points]_vars

\* the first round accepted a wall whose inliers held a noise patch and a
\* patch of a smaller cluster, both left out of the wall
C21_Witness ==
    /\ seg_pc = "loop"
    /\ round = 1
    /\ Len(walls) = 1
    /\ \E noise, other \in best_inliers :
          /\ PatchRegion(noise) = 0
          /\ PatchRegion(other) # 0
          /\ noise \notin walls[1].points
          /\ other \notin walls[1].points

\* max(obb.extent) of the points of a wall
WallExtent(wall) ==
    SumSeq([p \in 1..NumPatches |-> IF p \in wall.points THEN PatchExtent(p) ELSE 0])

\* C22: every wall segment accepted by segment_walls has a bounding box whose
\* longest extent is at least MIN_WALL_LENGTH, and a round whose majority
\* cluster is shorter adds no segment.
C22_OnlyLongWallsAccepted ==
    [][/\ \A i \in 1..Len(walls') : WallExtent(walls'[i]) >= MIN_WALL_LENGTH
       /\ RoundEvaluated =>
             \A wall_cloud \in {select_by_index(remaining_cloud, best_inliers, FALSE)} :
             \A labels \in {cluster_dbscan(wall_cloud)} :
                 ClusterLabels(labels) # {} =>
                     \A main_cluster \in {select_by_index(wall_cloud,
                                              MainClusterIndices(wall_cloud, labels), FALSE)} :
                         MaxExtent(main_cluster) < MIN_WALL_LENGTH => walls' = walls]_vars

\* the first round fitted a vertical plane whose majority cluster has points
\* enough and is shorter than MIN_WALL_LENGTH, and added no wall
C22_Witness ==
    /\ seg_pc = "loop"
    /\ round = 1
    /\ walls = <<>>
    /\ best_inliers # {}
    /\ Abs(best_model.c) < NORMAL_TOLERANCE
    /\ \A wall_cloud \in {select_by_index([i \in Patches |-> i], best_inliers, FALSE)} :
       \A labels \in {cluster_dbscan(wall_cloud)} :
          /\ ClusterLabels(labels) # {}
          /\ \A main_cluster \in {select_by_index(wall_cloud,
                                    MainClusterIndices(wall_cloud, labels), FALSE)} :
                /\ NumPoints(main_cluster) >= DBSCAN_MIN_POINTS
                /\ MaxExtent(main_cluster) < MIN_WALL_LENGTH

\* C23: the wall segments accepted in the rounds of one call are pairwise
\* disjoint sets of points of the input cloud, none of them left in the
\* remaining cloud; at most one is accepted per round, and so at most 5.
C23_WallsDisjoint ==
    /\ \A i, j \in 1..Len(walls) : i # j => walls[i].points \cap walls[j].points = {}
    /\ \A i \in 1..Len(walls) : walls[i].points \subseteq Patches
    /\ \A i \in 1..Len(walls) : walls[i].points \cap PatchSet(remaining_cloud) = {}
    /\ Len(walls) <= round
    /\ Len(walls) <= MAX_ROUNDS

\* two rounds have each accepted a wall
C23_Witness ==
    /\ seg_pc = "loop"
    /\ round = 2
    /\ Len(walls) = 2
    /\ walls[1].points # {}
    /\ walls[2].points # {}

(***************************************************************************)
(* Properties of FloorPlanApp.                                             *)
(***************************************************************************)
\* every thread has finished and every signal has been handled
AllHandled ==
    /\ app.state = "running"
    /\ events = <<>>
    /\ \A w \in DOMAIN workers : workers[w].pc = "done"

\* the processing runs in the order in which they were requested
ProcessingRuns == {w \in DOMAIN workers : workers[w].class = "ProcessingThread"}

\* C24: when a second processing run was started and all threads have
\* finished, the floor plan the application holds, with export and comparison
\* enabled, is the result of the scan requested last, if that run delivered a
\* result, in whatever order the runs completed.
C24_LatestScanHeld ==
    (AllHandled /\ Cardinality(ProcessingRuns) >= 2) =>
        \A latest \in {app.processing_thread} :
            workers[latest].exception = NoException =>
                /\ app.polygon = <<"polygon", workers[latest].argument>>
                /\ app.points_xy = <<"points_xy", workers[latest].argument>>
                /\ app.exportBtn
                /\ app.compareBtn

====
